---- MODULE Spec2Model ----
(***************************************************************************)
(* Model of the outbound request gateway of dashboard-core                 *)
(* (modules/azure/client.js): token bucket rate limiter, circuit breaker,  *)
(* retry engine, credential resolver, and the SSE stream parser with its   *)
(* token limit; and of the agent on top of it (modules/agent): consent,    *)
(* continuation store and provenance ring.  The retry loop, the limit     *)
(* policy, the ring, the content of a record and the breaker are also      *)
(* modelled on their own, under their own configuration.  Time is the      *)
(* value of Date.now() in milliseconds.                                    *)
(***************************************************************************)
EXTENDS Integers, Sequences, FiniteSets, TLC

\* ---------------------------------------------------------------- bounds
MaxReq == 4          \* logical requests started in one behaviour
MaxReqAad == 3       \* the same, in the behaviours with client credentials
MaxReqCred == 2      \* the same, in the behaviours about credentials
MaxReqLive == 2      \* the same, in the behaviours about termination
MaxInFlight == 2     \* requests concurrently between start and outcome
MaxTime == 4         \* last value of the clock

\* ------------------------------------------- configuration (environment)
rlCapacity == 2      \* AZURE_RL_CAPACITY
rlRefillMs == 2      \* AZURE_RL_REFILL_MS
threshold == 2       \* cbState.threshold, AZURE_CB_THRESHOLD
cooldownMs == 1      \* cbState.cooldownMs, AZURE_CB_COOLDOWN_MS
retries == 1         \* AZURE_RETRY_RETRIES
baseDelay == 1       \* AZURE_RETRY_BASE_DELAY_MS
maxDelay == 2        \* AZURE_RETRY_MAX_DELAY_MS
cbEventsMax == 200   \* _cbEventsMax
SafetyWindowMs == 300000  \* 5 min safety window of the AAD token cache

RETRIABLE_STATUS == {408, 429, 500, 502, 503, 504}

Min(a, b) == IF a < b THEN a ELSE b
Max(a, b) == IF a > b THEN a ELSE b

RECURSIVE Pow2(_)
Pow2(n) == IF n = 0 THEN 1 ELSE 2 * Pow2(n - 1)

VARIABLES
    now,            \* Date.now()
    authCfg,        \* "api-key" | "aad" | "none": which credentials the environment holds
    jitter,         \* AZURE_RETRY_JITTER: "none" | "full"
    rlTokens,       \* token bucket: tokens left
    rlLastRefill,   \* token bucket: time of the last refill
    cbState,        \* circuit breaker: [open, failures, openedAt, halfOpenProbe]
    cbEvents,       \* _cbEvents, newest first
    aadTokenCache,  \* _aadTokenCache: [set, expiresAt]
    req,            \* the logical requests (azureInvokeChat calls) in progress or just ended
    budget,         \* number of requests the callers will still start
    rlWin,          \* history: acquisitions and admissions since the last refill
    probeFailAt,    \* history: time of the last failed half-open probe, -1 if none
    \* one stream returned by azureInvokeChatStream
    sPrompt,        \* the user text of the request: [len, keyword]
    legacyCap,      \* AZURE_STREAM_MAX_TOKENS
    limitInfo,      \* [limit, rationale], fixed when the stream is created
    upstream,       \* the SSE events the reader has still to deliver
    sPc,            \* "off" | "new" | "reading" | "ended": position of iterate()
    sOut,           \* the events iterate() has yielded
    fullText,       \* iterate(): fullText
    tokenCount,     \* iterate(): tokenCount
    sResult,        \* the value iterate() returned
    sInput,         \* history: the SSE events of the whole response
    \* one retry loop of fetchWithRetry called with its own tuning
    backoff,        \* [retries, base, max, attempt, answer, delay]
    \* one evaluation of the streaming limit policy under its own configuration
    policy,         \* [pc, base, hardMax, prompt, adjusted, result]
    \* the provenance ring used on its own
    provLog,        \* history: the entries recorded since the ring was last cleared
    \* two agent calls side by side and the records made of them
    pair,           \* [pc, sha, a, b] and, once recorded, entryA, entryB
    \* the circuit breaker used on its own, under its own threshold
    brk,            \* [pc, th, cb, inflight, calls, at]
    \* the agent (modules/agent): consent, continuations, provenance
    userOptIn,      \* telemetryConfig().user_opt_in
    userConsent,    \* consent.js: userConsent
    continuations,  \* Agent._continuations, in insertion order: [id, ts, model, prompt, outputSoFar, limitMeta]
    nonce,          \* number of Math.random() draws made for continuation ids
    ring,           \* provenance.js: ring
    index,          \* provenance.js: index
    count,          \* provenance.js: count
    calls,          \* the Agent.invoke / Agent.stream calls in progress or just ended
    issued,         \* history: the continuation ids attached to limit_notice events
    lastOp          \* history: the result of the synchronous agent call just made

gwVars == <<now, authCfg, jitter, rlTokens, rlLastRefill, cbState, cbEvents,
            aadTokenCache, req, budget, rlWin, probeFailAt>>
stVars == <<sPrompt, legacyCap, limitInfo, upstream, sPc, sOut, fullText, tokenCount, sResult, sInput>>
dlVars == <<backoff, policy, provLog, pair, brk>>
agVars == <<userOptIn, userConsent, continuations, nonce, ring, index, count, calls,
            issued, lastOp>>
vars == <<gwVars, stVars, dlVars, agVars>>

Reqs == 1..MaxInFlight

\* ---------------------------------------------------------- rate limiter
\* takeToken() that admits a request when the bucket is already empty
takeToken_offByOne(tokens, lastRefill, t) ==
    LET refill == (t - lastRefill) >= rlRefillMs
        tk == IF refill THEN rlCapacity ELSE tokens
        lr == IF refill THEN t ELSE lastRefill
    IN IF tk >= 0 THEN [ok |-> TRUE, tokens |-> tk - 1, lastRefill |-> lr, refilled |-> refill]
                  ELSE [ok |-> FALSE, tokens |-> tk, lastRefill |-> lr, refilled |-> refill]

\* takeToken() whose refill adds rlCapacity to what is left
takeToken_addOnRefill(tokens, lastRefill, t) ==
    LET refill == (t - lastRefill) >= rlRefillMs
        tk == IF refill THEN tokens + rlCapacity ELSE tokens
        lr == IF refill THEN t ELSE lastRefill
    IN IF tk > 0 THEN [ok |-> TRUE, tokens |-> tk - 1, lastRefill |-> lr, refilled |-> refill]
                 ELSE [ok |-> FALSE, tokens |-> tk, lastRefill |-> lr, refilled |-> refill]

\* takeToken(): [ok, tokens, lastRefill, refilled]
takeToken(tokens, lastRefill, t) ==
    LET refill == (t - lastRefill) >= rlRefillMs
        tk == IF refill THEN rlCapacity ELSE tokens
        lr == IF refill THEN t ELSE lastRefill
    IN IF tk > 0 THEN [ok |-> TRUE, tokens |-> tk - 1, lastRefill |-> lr, refilled |-> refill]
                 ELSE [ok |-> FALSE, tokens |-> tk, lastRefill |-> lr, refilled |-> refill]

\* ------------------------------------------------------- circuit breaker
\* emitCircuit(event): unshift the payload, keep at most cbEventsMax
emitCircuit(events, event, cb, t) ==
    LET all == <<[ts |-> t, event |-> event, state |-> cb]>> \o events
    IN IF Len(all) > cbEventsMax THEN SubSeq(all, 1, cbEventsMax) ELSE all

\* circuitShouldBlock(): [blocked, cb, events]
circuitShouldBlock(cb, events, t) ==
    IF ~cb.open THEN [blocked |-> FALSE, cb |-> cb, events |-> events]
    ELSE IF (t - cb.openedAt) > cooldownMs
         THEN LET cb2 == [cb EXCEPT !.halfOpenProbe = TRUE]
              IN [blocked |-> FALSE, cb |-> cb2,
                  events |-> emitCircuit(events, "half-open", cb2, t)]
         ELSE [blocked |-> TRUE, cb |-> cb, events |-> events]

\* circuitReport() whose success leaves the half-open flag set
circuitReport_keepFlag(cb, events, success, t) ==
    IF success
    THEN IF cb.halfOpenProbe \/ cb.open
         THEN LET cb2 == [cb EXCEPT !.open = FALSE, !.failures = 0]
              IN [cb |-> cb2, events |-> emitCircuit(events, "close", cb2, t)]
         ELSE [cb |-> [cb EXCEPT !.failures = 0], events |-> events]
    ELSE LET f == cb.failures + 1
         IN IF f >= threshold /\ ~cb.open
            THEN LET cb2 == [cb EXCEPT !.failures = f, !.open = TRUE, !.openedAt = t]
                 IN [cb |-> cb2, events |-> emitCircuit(events, "open", cb2, t)]
            ELSE [cb |-> [cb EXCEPT !.failures = f], events |-> events]

\* circuitReport() that opens one failure late
circuitReportWith_lateOpen(cb, events, success, t, th) ==
    IF success
    THEN IF cb.halfOpenProbe \/ cb.open
         THEN LET cb2 == [cb EXCEPT !.open = FALSE, !.halfOpenProbe = FALSE, !.failures = 0]
              IN [cb |-> cb2, events |-> emitCircuit(events, "close", cb2, t)]
         ELSE [cb |-> [cb EXCEPT !.failures = 0], events |-> events]
    ELSE LET f == cb.failures + 1
         IN IF f > th /\ ~cb.open
            THEN LET cb2 == [cb EXCEPT !.failures = f, !.open = TRUE, !.openedAt = t]
                 IN [cb |-> cb2, events |-> emitCircuit(events, "open", cb2, t)]
            ELSE [cb |-> [cb EXCEPT !.failures = f], events |-> events]

\* circuitReport(success) when cbState.threshold is th: [cb, events]
circuitReportWith(cb, events, success, t, th) ==
    IF success
    THEN IF cb.halfOpenProbe \/ cb.open
         THEN LET cb2 == [cb EXCEPT !.open = FALSE, !.halfOpenProbe = FALSE, !.failures = 0]
              IN [cb |-> cb2, events |-> emitCircuit(events, "close", cb2, t)]
         ELSE [cb |-> [cb EXCEPT !.failures = 0], events |-> events]
    ELSE LET f == cb.failures + 1
         IN IF f >= th /\ ~cb.open
            THEN LET cb2 == [cb EXCEPT !.failures = f, !.open = TRUE, !.openedAt = t]
                 IN [cb |-> cb2, events |-> emitCircuit(events, "open", cb2, t)]
            ELSE [cb |-> [cb EXCEPT !.failures = f], events |-> events]

\* circuitReport(success): [cb, events]
circuitReport(cb, events, success, t) == circuitReportWith(cb, events, success, t, threshold)

\* ----------------------------------------------------------- retry engine
\* computeDelay() without the cap
computeDelay_uncapped(attempt, base, max) ==
    LET exp == base * Pow2(attempt)
    IN IF jitter = "none" THEN {exp}
       ELSE IF exp <= 0 THEN {0} ELSE 0..(exp - 1)

\* computeDelay(attempt, base, max): the set of values it can return
computeDelay(attempt, base, max) ==
    LET exp == Min(max, base * Pow2(attempt))
    IN IF jitter = "none" THEN {exp}
       ELSE IF exp <= 0 THEN {0} ELSE 0..(exp - 1)

\* A Retry-After header: none, decimal seconds, an HTTP date, or junk.
NoHeader == [form |-> "none", n |-> 0]
\* parseRetryAfter(value): milliseconds, or -1 for null
parseRetryAfter(h, t) ==
    CASE h.form = "secs" -> h.n * 1000
      [] h.form = "date" -> Max(0, h.n - t)
      [] OTHER -> -1

\* ------------------------------------------------------ inputs of the model
Throw == [kind |-> "throw", status |-> 0, ra |-> NoHeader]
Resp(s, h) == [kind |-> "resp", status |-> s, ra |-> h]
Secs(n) == [form |-> "secs", n |-> n]
\* what one fetch() of the chat-completions endpoint can produce
Responses ==
    {Throw} \cup {Resp(s, NoHeader) : s \in {200, 404, 429, 503}}
            \cup {Resp(429, Secs(n)) : n \in {0, 1}}
\* what one fetch() of the AAD token endpoint can produce
TokenResponses ==
    {[kind |-> "throw", expiresIn |-> 0], [kind |-> "status", expiresIn |-> 0],
     [kind |-> "notoken", expiresIn |-> 0]}
    \cup {[kind |-> "ok", expiresIn |-> e] : e \in {300, 3600}}

IsOk(r) == r.kind = "resp" /\ r.status >= 200 /\ r.status <= 299

\* ---------------------------------------------------------------- requests
IdleReq ==
    [pc |-> "idle", attempt |-> 0, lastStatus |-> 0, wakeAt |-> 0,
     outcome |-> "none", metaAttempts |-> 0, metaLastStatus |-> 0, tokenNow |-> 0,
     auth |-> "none",       \* the credential header of its chat-completions requests
     \* history of the request
     probe |-> FALSE,       \* admitted through the half-open branch of the breaker
     steps |-> <<>>,        \* the gates and calls it went through, in order
     fetches |-> 0,         \* chat-completions fetches issued
     allRetriable |-> TRUE, \* every answer so far was a retriable status or an exception
     lastResp |-> 0,        \* status of the last response received
     reports |-> <<>>,      \* the circuitReport calls it made
     tokenFetches |-> 0]    \* token-endpoint fetches issued

InFlight(p) == req[p].pc \notin {"idle", "done"}

\* The record of a request that has ended holds its outcome in the state that
\* follows its last step; it is handed to the caller and the slot is free again.
cur == [p \in Reqs |-> IF req[p].pc = "done" THEN IdleReq ELSE req[p]]

NoStream ==
    /\ sPrompt = [len |-> 0, keyword |-> FALSE]
    /\ legacyCap = 0
    /\ limitInfo = [limit |-> 0, rationale |-> ""]
    /\ upstream = <<>>
    /\ sPc = "off"
    /\ sOut = <<>>
    /\ fullText = <<>>
    /\ tokenCount = 0
    /\ sResult = [returned |-> FALSE, output |-> <<>>, truncated |-> FALSE]
    /\ sInput = <<>>

\* ---------------------------------------------- agent: bounds and tuning
MaxAgentCalls == 3       \* agent calls made in one behaviour
MaxAgentSlots == 1       \* agent calls in progress at the same time
MaxDeltas == 1           \* content chunks of one backend stream
MaxAgentTime == 2        \* last value of the clock in the behaviours of the agent
continuationTTLms == 1   \* CONTINUATION_TTL_MS
continuationMax == 1     \* CONTINUATION_MAX
ringSize == 2            \* PROVENANCE_RING_SIZE
StubChunks == 4          \* chunks of the stub stream of a model

ASlots == 1..MaxAgentSlots
NoId == <<-1, -1>>
NoEntry == [ts |-> -1, model |-> "", ok |-> FALSE]
NoOp == [op |-> "none", id |-> NoId, result |-> "none", listed |-> <<>>]
IdleCall ==
    [kind |-> "none", pc |-> "idle", model |-> "", prompt |-> <<>>,
     accumulated |-> <<>>, limitMeta |-> FALSE, inner |-> "start", deltas |-> 0,
     last |-> [event |-> "none", continuationId |-> NoId],
     result |-> "none", error |-> "none",
     source |-> "none",     \* "stub" | "gateway": the branch of the model adapter that ran
     recs |-> <<>>]         \* history: the ok flags of the provenance records it appended

NoAgent ==
    /\ userOptIn = FALSE
    /\ userConsent = FALSE
    /\ continuations = <<>>
    /\ nonce = 0
    /\ ring = [i \in 0..(ringSize - 1) |-> NoEntry]
    /\ index = 0
    /\ count = 0
    /\ calls = [c \in ASlots |-> IdleCall]
    /\ issued = {}
    /\ lastOp = NoOp

NoPolicy ==
    [pc |-> "off", base |-> 0, hardMax |-> 0, prompt |-> [len |-> 0, keyword |-> FALSE],
     adjusted |-> 0, result |-> [limit |-> 0, rationale |-> ""]]

NoPair == [pc |-> "off"]

NoBreaker == [pc |-> "off"]

NoBackoff ==
    /\ backoff = [retries |-> 0, base |-> 0, max |-> 0, attempt |-> 0, answer |-> Throw, delay |-> -1]
    /\ policy = NoPolicy
    /\ provLog = <<>>
    /\ pair = NoPair
    /\ brk = NoBreaker

InitGateway ==
    /\ now = 0
    /\ rlTokens = rlCapacity
    /\ rlLastRefill = 0
    /\ cbState = [open |-> FALSE, failures |-> 0, openedAt |-> 0, halfOpenProbe |-> FALSE]
    /\ cbEvents = <<>>
    /\ aadTokenCache = [set |-> FALSE, expiresAt |-> 0]
    /\ req = [p \in Reqs |-> IdleReq]
    /\ rlWin = [acq |-> 0, adm |-> 0]
    /\ probeFailAt = -1

\* the environment holds an API key, or no credentials at all
Init ==
    /\ InitGateway
    /\ NoStream
    /\ NoBackoff
    /\ NoAgent
    /\ authCfg \in {"api-key", "none"}
    /\ jitter \in {"none", "full"}
    /\ budget = MaxReq

\* the environment holds client credentials and no API key
InitAad ==
    /\ InitGateway
    /\ NoStream
    /\ NoBackoff
    /\ NoAgent
    /\ authCfg = "aad"
    /\ jitter = "none"
    /\ budget = MaxReqAad

\* any of the three credential configurations
InitCred ==
    /\ InitGateway
    /\ NoStream
    /\ NoBackoff
    /\ NoAgent
    /\ authCfg \in {"api-key", "aad", "none"}
    /\ jitter = "none"
    /\ budget = MaxReqCred

\* fetchWithRetry up to its first fetch, for the request whose record so far
\* is r0: the breaker gate, then the limiter gate, then the first attempt.
Gate(p, r0) ==
    LET b == circuitShouldBlock(cbState, cbEvents, now)
        k == takeToken(rlTokens, rlLastRefill, now)
        viaProbe == cbState.open /\ ~b.blocked
    IN /\ cbState' = b.cb
       /\ cbEvents' = b.events
       /\ IF b.blocked
          THEN /\ req' = [cur EXCEPT ![p] = [r0 EXCEPT !.pc = "done", !.outcome = "circuit",
                              !.steps = @ \o <<"breaker">>]]
               /\ UNCHANGED <<rlTokens, rlLastRefill, rlWin>>
          ELSE /\ rlTokens' = k.tokens
               /\ rlLastRefill' = k.lastRefill
               /\ rlWin' = [acq |-> (IF k.refilled THEN 0 ELSE rlWin.acq) + 1,
                            adm |-> (IF k.refilled THEN 0 ELSE rlWin.adm)
                                    + (IF k.ok THEN 1 ELSE 0)]
               /\ IF ~k.ok
                  THEN req' = [cur EXCEPT ![p] = [r0 EXCEPT !.pc = "done",
                                   !.outcome = "ratelimit",
                                   !.steps = @ \o <<"breaker", "limiter">>]]
                  ELSE req' = [cur EXCEPT ![p] = [r0 EXCEPT !.pc = "fetching",
                                   !.attempt = 0, !.probe = viaProbe, !.fetches = 1,
                                   !.steps = @ \o <<"breaker", "limiter", "fetch">>]]

\* a failure before the gates that is charged a token all the same
NoGate_charged ==
    /\ rlTokens' = rlTokens - 1
    /\ UNCHANGED <<rlLastRefill, cbState, cbEvents, rlWin>>

\* azureInvokeChat threw before it called fetchWithRetry
NoGate == UNCHANGED <<rlTokens, rlLastRefill, cbState, cbEvents, rlWin>>

\* the cache test that also reuses a token at the edge of the safety window
cacheValid_inclusive(cache, t) == cache.set /\ (cache.expiresAt - SafetyWindowMs) >= t

\* fetchAADToken: _aadTokenCache && (_aadTokenCache.expiresAt - 300000) > now
cacheValid(cache, t) == cache.set /\ (cache.expiresAt - SafetyWindowMs) > t

\* resolveAuthHeaders(): the header a request carries once credentials resolved
authHeaderOf_bearerFirst(cfg) == IF cfg = "aad" \/ cfg = "api-key" THEN "bearer" ELSE "none"

authHeaderOf(cfg) ==
    IF cfg = "api-key" THEN "api-key" ELSE IF cfg = "aad" THEN "bearer" ELSE "none"

\* azureInvokeChat from the call to its first network request: configuration
\* checks, resolveAuthHeaders() (which fetches a token unless an API key or a
\* cached token is there), then the gates of fetchWithRetry.  Between the
\* resolution of the headers and the gates only microtasks run.
Start(p, mapped) ==
    /\ ~InFlight(p)
    /\ \A q \in Reqs : q < p => InFlight(q)
    /\ budget > 0
    /\ budget' = budget - 1
    /\ IF authCfg = "none"
       THEN /\ req' = [cur EXCEPT ![p] = [IdleReq EXCEPT !.pc = "done", !.outcome = "config"]]
            /\ NoGate
       ELSE IF ~mapped
       THEN /\ req' = [cur EXCEPT ![p] = [IdleReq EXCEPT !.pc = "done", !.outcome = "nodeploy"]]
            /\ NoGate
       ELSE IF authCfg = "api-key" \/ cacheValid(aadTokenCache, now)
       THEN Gate(p, [IdleReq EXCEPT !.steps = <<"cred">>, !.auth = authHeaderOf(authCfg)])
       ELSE /\ req' = [cur EXCEPT ![p] = [IdleReq EXCEPT !.pc = "token", !.tokenNow = now,
                           !.steps = <<"cred", "tokenfetch">>, !.tokenFetches = 1]]
            /\ NoGate
    /\ UNCHANGED <<now, authCfg, jitter, aadTokenCache, probeFailAt>>
    /\ UNCHANGED <<stVars, dlVars, agVars>>

\* fetchAADToken after the token endpoint answered, and on success the rest
\* of azureInvokeChat up to the first chat-completions request
TokenResponse(p, tr) ==
    /\ req[p].pc = "token"
    /\ IF tr.kind = "ok"
       THEN /\ aadTokenCache' = [set |-> TRUE,
                                 expiresAt |-> req[p].tokenNow + tr.expiresIn * 1000]
            /\ Gate(p, [req[p] EXCEPT !.auth = authHeaderOf(authCfg)])
       ELSE /\ req' = [cur EXCEPT ![p] = [@ EXCEPT !.pc = "done", !.outcome = "auth"]]
            /\ UNCHANGED aadTokenCache
            /\ NoGate
    /\ UNCHANGED <<now, authCfg, jitter, budget, probeFailAt>>
    /\ UNCHANGED <<stVars, dlVars, agVars>>

\* the delay fetchWithRetry would sleep after a retriable response r
RetryDelays(r, attempt, base, max) ==
    LET computed == computeDelay(attempt, base, max)
        parsed == parseRetryAfter(r.ra, now)
    IN IF r.kind = "resp" /\ r.status = 429 /\ r.ra.form # "none" /\ parsed > 0
       THEN {Min(parsed, max)}
       ELSE computed

\* a loop that retries every response that is not a success
retriable_anyError(r) == r.kind = "throw" \/ ~IsOk(r)

\* the test of the loop of fetchWithRetry on an answer of fetch()
retriable(r) == r.kind = "throw" \/ (~IsOk(r) /\ r.status \in RETRIABLE_STATUS)

\* a loop that never gives up on a retriable answer
LoopStep_noBreak(attempt, r) ==
    IF retriable(r) THEN "sleep" ELSE "return"

\* the loop giving up one attempt early
LoopStep_earlyBreak(attempt, r) ==
    IF retriable(r)
    THEN IF attempt + 1 >= retries THEN "break" ELSE "sleep"
    ELSE "return"

\* where one iteration of the loop goes: sleep and retry, break out of the
\* loop (retries exhausted), or return the response
LoopStep(attempt, r) ==
    IF retriable(r)
    THEN IF attempt = retries THEN "break" ELSE "sleep"
    ELSE "return"

\* a loop that also reports every failed attempt it retries
ReportsOf_everyAttempt(step, r) ==
    CASE step = "return" -> <<IsOk(r)>>
      [] OTHER -> <<FALSE>>

\* the circuitReport calls made on each way out of the iteration
ReportsOf(step, r) ==
    CASE step = "return" -> <<IsOk(r)>>
      [] step = "break" -> <<FALSE>>
      [] OTHER -> <<>>

\* e.meta of the error thrown after the loop
errorMeta(attempt, lastStatus) == [attempts |-> attempt + 1, lastStatus |-> lastStatus]

RECURSIVE ApplyReports(_, _, _, _)
ApplyReports(cb, events, reports, t) ==
    IF reports = <<>> THEN [cb |-> cb, events |-> events]
    ELSE LET one == circuitReport(cb, events, Head(reports), t)
         IN ApplyReports(one.cb, one.events, Tail(reports), t)

\* one iteration of the loop of fetchWithRetry, from the answer of fetch()
\* to the next await or to the end of azureInvokeChat
HandleResponse(p, r) ==
    /\ req[p].pc = "fetching"
    /\ LET me == req[p]
           step == LoopStep(me.attempt, r)
           ls == IF r.kind = "resp" THEN r.status ELSE me.lastStatus
           allR == me.allRetriable /\ (r.kind = "throw" \/ r.status \in RETRIABLE_STATUS)
           lr == IF r.kind = "resp" THEN r.status ELSE me.lastResp
           reps == ReportsOf(step, r)
           rep == ApplyReports(cbState, cbEvents, reps, now)
           meta == errorMeta(me.attempt, ls)
       IN /\ cbState' = rep.cb
          /\ cbEvents' = rep.events
          /\ probeFailAt' = IF me.probe /\ step # "sleep" /\ ~IsOk(r) THEN now ELSE probeFailAt
          /\ IF step = "sleep"
             THEN \E d \in RetryDelays(r, me.attempt, baseDelay, maxDelay) :
                    req' = [cur EXCEPT ![p] = [@ EXCEPT !.pc = "sleeping", !.lastStatus = ls,
                                !.wakeAt = now + d, !.allRetriable = allR, !.lastResp = lr,
                                !.reports = @ \o reps]]
             ELSE req' = [cur EXCEPT ![p] = [@ EXCEPT !.pc = "done", !.lastStatus = ls,
                                 !.allRetriable = allR, !.lastResp = lr,
                                 !.reports = @ \o reps,
                                 !.outcome = IF step = "break" THEN "exhausted"
                                             ELSE IF IsOk(r) THEN "ok" ELSE "http",
                                 !.metaAttempts = IF step = "break" THEN meta.attempts ELSE 0,
                                 !.metaLastStatus = IF step = "break" THEN meta.lastStatus ELSE 0]]
    /\ UNCHANGED <<now, authCfg, jitter, rlTokens, rlLastRefill, aadTokenCache, budget, rlWin>>
    /\ UNCHANGED <<stVars, dlVars, agVars>>

\* a loop that takes a token again before each retry
Wake_retake(p) ==
    /\ req[p].pc = "sleeping"
    /\ now >= req[p].wakeAt
    /\ req' = [cur EXCEPT ![p] = [@ EXCEPT !.pc = "fetching", !.attempt = @ + 1,
                                   !.wakeAt = 0, !.fetches = @ + 1]]
    /\ LET k == takeToken(rlTokens, rlLastRefill, now)
       IN rlTokens' = k.tokens /\ rlLastRefill' = k.lastRefill
    /\ UNCHANGED <<now, authCfg, jitter, cbState, cbEvents,
                   aadTokenCache, budget, rlWin, probeFailAt>>
    /\ UNCHANGED <<stVars, dlVars, agVars>>

\* the backoff sleep is over: attempt++, next fetch
Wake(p) ==
    /\ req[p].pc = "sleeping"
    /\ now >= req[p].wakeAt
    /\ req' = [cur EXCEPT ![p] = [@ EXCEPT !.pc = "fetching", !.attempt = @ + 1,
                                   !.wakeAt = 0, !.fetches = @ + 1]]
    /\ UNCHANGED <<now, authCfg, jitter, rlTokens, rlLastRefill, cbState, cbEvents,
                   aadTokenCache, budget, rlWin, probeFailAt>>
    /\ UNCHANGED <<stVars, dlVars, agVars>>

Tick ==
    /\ now < MaxTime
    /\ now' = now + 1
    /\ req' = cur
    /\ UNCHANGED <<authCfg, jitter, rlTokens, rlLastRefill, cbState, cbEvents,
                   aadTokenCache, budget, rlWin, probeFailAt>>
    /\ UNCHANGED <<stVars, dlVars, agVars>>

Next ==
    \/ \E p \in Reqs, mapped \in BOOLEAN : Start(p, mapped)
    \/ \E p \in Reqs, r \in Responses : HandleResponse(p, r)
    \/ \E p \in Reqs : Wake(p)
    \/ Tick

NextAad ==
    \/ Next
    \/ \E p \in Reqs, tr \in TokenResponses : TokenResponse(p, tr)

Spec == Init /\ [][Next]_vars

SpecAad == InitAad /\ [][NextAad]_vars

SpecCred == InitCred /\ [][NextAad]_vars

\* The gateway when every network call and every sleep completes: fetch()
\* settles, the timer of sleep() fires once its delay has passed, and the
\* clock advances.
InitLive ==
    /\ InitGateway
    /\ NoStream
    /\ NoBackoff
    /\ NoAgent
    /\ authCfg = "api-key"
    /\ jitter \in {"none", "full"}
    /\ budget = MaxReqLive

Completes ==
    /\ WF_vars(Tick)
    /\ \A p \in Reqs : WF_vars(Wake(p))
    /\ \A p \in Reqs : WF_vars(\E r \in Responses : HandleResponse(p, r))

SpecLive == InitLive /\ [][Next]_vars /\ Completes

\* --------------------------------------------- the retry loop, its delays
MaxBackoffRetries == 3   \* retries of the loop below

HttpDate(ms) == [form |-> "date", n |-> ms]
Junk == [form |-> "junk", n |-> 0]
\* the answers of fetch() after which fetchWithRetry sleeps
RetriableAnswers ==
    {Throw}
    \cup {Resp(st, h) : st \in {429, 503},
                        h \in {NoHeader, Secs(0), Secs(1), Secs(5), HttpDate(1200), Junk}}

\* fetchWithRetry(url, options, { retries, baseDelay, maxDelay }) has passed
\* the gates; every answer it gets is retriable
InitBackoff ==
    /\ InitGateway
    /\ NoStream
    /\ NoAgent
    /\ authCfg = "api-key"
    /\ jitter \in {"none", "full"}
    /\ budget = 0
    /\ \E b \in {1, 2}, m \in {3, 1500} :
          backoff = [retries |-> MaxBackoffRetries, base |-> b, max |-> m,
                     attempt |-> 0, answer |-> Throw, delay |-> -1]
    /\ policy = NoPolicy
    /\ provLog = <<>>
    /\ pair = NoPair
    /\ brk = NoBreaker

\* one iteration that ends in `await sleep(delay); attempt++`
BackoffSleep(r) ==
    /\ backoff.retries > 0
    /\ backoff.delay = -1
    /\ backoff.attempt < backoff.retries
    /\ \E d \in RetryDelays(r, backoff.attempt, backoff.base, backoff.max) :
          backoff' = [backoff EXCEPT !.answer = r, !.delay = d]
    /\ UNCHANGED <<policy, provLog, pair, brk, gwVars, stVars, agVars>>

\* the sleep is over
BackoffWake ==
    /\ backoff.delay >= 0
    /\ backoff' = [backoff EXCEPT !.attempt = @ + 1, !.delay = -1, !.answer = Throw]
    /\ UNCHANGED <<policy, provLog, pair, brk, gwVars, stVars, agVars>>

NextBackoff ==
    \/ \E r \in RetriableAnswers : BackoffSleep(r)
    \/ BackoffWake

SpecBackoff == InitBackoff /\ [][NextBackoff]_vars

\* ------------------------------------------------------------- tokenizer
\* Text is a sequence of one-character strings; the grave accent, which a
\* TLA+ string cannot hold, is written Backtick.
Backtick == "backtick"
IsSpace(c) == c \in {" ", "\t", "\n"}
IsPunct(c) == c \in {",", ".", ";", ":", "!", "?", "(", ")", "\"", "'", Backtick}

\* String(text).split(/[\s]+/)
RECURSIVE SplitSpace(_, _, _)
SplitSpace(text, piece, inSpace) ==
    IF text = <<>> THEN <<piece>>
    ELSE IF IsSpace(Head(text))
         THEN IF inSpace THEN SplitSpace(Tail(text), <<>>, TRUE)
              ELSE <<piece>> \o SplitSpace(Tail(text), <<>>, TRUE)
         ELSE SplitSpace(Tail(text), piece \o <<Head(text)>>, FALSE)

\* p.split(/([,.;:!?()"'\x60])/): the separators are kept as parts
RECURSIVE SplitPunct(_, _)
SplitPunct(text, piece) ==
    IF text = <<>> THEN <<piece>>
    ELSE IF IsPunct(Head(text))
         THEN <<piece, <<Head(text)>>>> \o SplitPunct(Tail(text), <<>>)
         ELSE SplitPunct(Tail(text), piece \o <<Head(text)>>)

NonEmpty(part) == part # <<>>

RECURSIVE FlatMapPunct(_)
FlatMapPunct(pieces) ==
    IF pieces = <<>> THEN <<>>
    ELSE SelectSeq(SplitPunct(Head(pieces), <<>>), NonEmpty) \o FlatMapPunct(Tail(pieces))

naiveCount(text) ==
    IF text = <<>> THEN 0
    ELSE Len(SelectSeq(FlatMapPunct(SplitSpace(text, <<>>, FALSE)), NonEmpty))

\* countTokens(): no encoder is ever cached (only countTokensAsync fills the
\* cache and nothing calls it), so the synchronous path is the naive count
countTokens(text) == IF text = <<>> THEN 0 ELSE naiveCount(text)

\* ---------------------------------------------------------- limit policy
StreamTokenLimit == 800       \* STREAM_TOKEN_LIMIT
StreamTokenLimitMax == 2000   \* STREAM_TOKEN_LIMIT_MAX
ShortPromptLen == 40
MinLimit == 100

\* A prompt is given by the length of its trimmed text and by whether it
\* contains one of POSITIVE_KEYWORDS.
\* the keyword boost taken from the configured base, whatever came before
adjustLimit_fromBase(prompt, base) ==
    IF prompt.keyword THEN (base * 5) \div 4
    ELSE IF prompt.len < ShortPromptLen THEN (base * 3) \div 4 ELSE base

\* evaluateStreamingLimit: `limit` after the two heuristics, before the
\* clamps.  Math.floor(limit * 0.75) and Math.floor(limit * 1.25) are exact
\* on integers, and \div rounds down as Math.floor does.
adjustLimit(prompt, base) ==
    LET l1 == IF prompt.len < ShortPromptLen THEN (base * 3) \div 4 ELSE base
    IN IF prompt.keyword THEN (l1 * 5) \div 4 ELSE l1

\* a clamp that applies the floor before the hard maximum
clampLimit_floorFirst(limit, hardMax) ==
    LET l == IF limit < MinLimit THEN MinLimit ELSE limit
    IN IF l > hardMax THEN hardMax ELSE l

\* if (limit > hardMax) limit = hardMax; if (limit < 100) limit = 100
clampLimit(limit, hardMax) ==
    LET l3 == IF limit > hardMax THEN hardMax ELSE limit
    IN IF l3 < MinLimit THEN MinLimit ELSE l3

\* evaluateStreamingLimit(prompt) under STREAM_TOKEN_LIMIT = base and
\* STREAM_TOKEN_LIMIT_MAX = hardMax
streamingLimit(prompt, base, hardMax) ==
    LET l2 == adjustLimit(prompt, base)
        r1 == IF prompt.len < ShortPromptLen THEN "Short prompt heuristic reduction"
              ELSE "Base streaming safety limit"
        r2 == IF prompt.keyword THEN "Elevated for educational / research context" ELSE r1
        r3 == IF l2 > hardMax THEN r2 \o " (capped)" ELSE r2
    IN [limit |-> clampLimit(l2, hardMax), rationale |-> r3]

\* evaluateStreamingLimit(prompt) under the default configuration
evaluateStreamingLimit(prompt) == streamingLimit(prompt, StreamTokenLimit, StreamTokenLimitMax)

\* ------------------------------------- the limit policy, its configuration
MaxPolicyBase == 300     \* largest base limit of the range below
\* STREAM_TOKEN_LIMIT: a range around the floor, the default and large values
PolicyBases == (-1..MaxPolicyBase) \cup {800, 801, 1700, 3000}
\* STREAM_TOKEN_LIMIT_MAX
PolicyHardMaxes == {0, 50, 99, 100, 101, 150, 200, 2000}
\* the shortest prompt holds the shortest keyword, "ethics"
PolicyPrompts == [len : {6, 39, 40, 41}, keyword : BOOLEAN]

\* a caller is about to evaluate the policy for its prompt
InitPolicy ==
    /\ InitGateway
    /\ NoStream
    /\ NoAgent
    /\ authCfg = "api-key"
    /\ jitter = "none"
    /\ budget = 0
    /\ backoff = [retries |-> 0, base |-> 0, max |-> 0, attempt |-> 0, answer |-> Throw, delay |-> -1]
    /\ provLog = <<>>
    /\ pair = NoPair
    /\ brk = NoBreaker
    /\ \E b \in PolicyBases, h \in PolicyHardMaxes, pr \in PolicyPrompts :
          policy = [NoPolicy EXCEPT !.pc = "new", !.base = b, !.hardMax = h, !.prompt = pr]

\* evaluateStreamingLimit(prompt, model)
EvaluateLimit ==
    /\ policy.pc = "new"
    /\ policy' = [policy EXCEPT !.pc = "done",
                                !.adjusted = adjustLimit(policy.prompt, policy.base),
                                !.result = streamingLimit(policy.prompt, policy.base, policy.hardMax)]
    /\ UNCHANGED <<backoff, provLog, pair, brk, gwVars, stVars, agVars>>

NextPolicy == EvaluateLimit

SpecPolicy == InitPolicy /\ [][NextPolicy]_vars

\* a legacy cap that overrides the policy limit whenever it is set
applyLegacyCap_always(info, cap) ==
    IF cap > 0
    THEN [limit |-> cap, rationale |-> info.rationale \o " (legacy cap override)"]
    ELSE info

\* azureInvokeChatStream: the legacy cap overrides a larger policy limit
applyLegacyCap(info, cap) ==
    IF cap > 0 /\ cap < info.limit
    THEN [limit |-> cap, rationale |-> info.rationale \o " (legacy cap override)"]
    ELSE info

\* ---------------------------------------------------------- stream parser
maxEventBytes == 65536   \* AZURE_SSE_MAX_EVENT_BYTES
MaxEvents == 3           \* SSE events in one response

Hello == <<"H", "e", "l", "l", "o">>
World == <<"W", "o", "r", "l", "d">>
Overflow == <<"O", "v", "e", "r", "f", "l", "o", "w">>

\* One SSE event with one data line: a chunk with a content delta (possibly
\* empty), a line that is not JSON, the [DONE] sentinel; bytes is the size of
\* the raw event.
Delta(text) == [kind |-> "delta", text |-> text, bytes |-> 48 + Len(text)]
SseEvents ==
    {Delta(t) : t \in {Hello, World, Overflow, <<" ", "a">>, <<".">>, <<>>}}
    \cup {[kind |-> "bad", text |-> <<>>, bytes |-> 20],
          [kind |-> "done", text |-> <<>>, bytes |-> 12],
          [kind |-> "delta", text |-> Hello, bytes |-> maxEventBytes + 1]}

RECURSIVE SeqsUpTo(_, _)
SeqsUpTo(S, n) ==
    IF n = 0 THEN {<<>>}
    ELSE LET shorter == SeqsUpTo(S, n - 1)
         IN shorter \cup {Append(q, x) : q \in {r \in shorter : Len(r) = n - 1}, x \in S}

Prompts == [len : {10, 50}, keyword : BOOLEAN]
\* AZURE_STREAM_MAX_TOKENS: negative, unset, small, and between the limits
\* the policy gives to the prompts above
LegacyCaps == {-1, 0, 2, 3, 800}

\* azureInvokeChatStream has returned { stream, cancel } for an ok response
InitStream ==
    /\ InitGateway
    /\ NoBackoff
    /\ NoAgent
    /\ authCfg = "api-key"
    /\ jitter = "none"
    /\ budget = 0
    /\ sPrompt \in Prompts
    /\ legacyCap \in LegacyCaps
    /\ limitInfo = applyLegacyCap(evaluateStreamingLimit(sPrompt), legacyCap)
    /\ upstream \in SeqsUpTo(SseEvents, MaxEvents)
    /\ sInput = upstream
    /\ sPc = "new"
    /\ sOut = <<>>
    /\ fullText = <<>>
    /\ tokenCount = 0
    /\ sResult = [returned |-> FALSE, output |-> <<>>, truncated |-> FALSE]

enforcedLimit == limitInfo.limit

\* the limit test with > in place of >=
LimitReached_strict(tc, limit) == limit # 0 /\ tc > limit

\* if (enforcedLimit && tokenCount >= enforcedLimit)
LimitReached(tc, limit) == limit # 0 /\ tc >= limit

\* iterate() that starts reading without the transparency event
StreamFirst_noInfo ==
    /\ sPc = "new"
    /\ sOut' = <<>>
    /\ sPc' = "reading"
    /\ UNCHANGED <<sPrompt, legacyCap, limitInfo, upstream, fullText, tokenCount, sResult, sInput>>
    /\ UNCHANGED <<gwVars, dlVars, agVars>>

\* iterate(), first pull: the transparency event
StreamFirst ==
    /\ sPc = "new"
    /\ sOut' = <<[event |-> "limit_info", limit |-> enforcedLimit,
                  rationale |-> limitInfo.rationale, delta |-> <<>>, tokens |-> 0]>>
    /\ sPc' = "reading"
    /\ UNCHANGED <<sPrompt, legacyCap, limitInfo, upstream, fullText, tokenCount, sResult, sInput>>
    /\ UNCHANGED <<gwVars, dlVars, agVars>>

\* a size test that lets every raw event through
oversized_never(ev) == FALSE

\* if (maxEventBytes && Buffer.byteLength(rawEvent) > maxEventBytes) continue
oversized(ev) == maxEventBytes # 0 /\ ev.bytes > maxEventBytes

\* iterate(): the next raw event of the buffer
StreamEvent ==
    /\ sPc = "reading"
    /\ upstream # <<>>
    /\ upstream' = Tail(upstream)
    /\ LET ev == Head(upstream)
           text2 == fullText \o ev.text
           count2 == countTokens(text2)
       IN IF oversized(ev)
          THEN UNCHANGED <<sPc, sOut, fullText, tokenCount, sResult>>
          ELSE IF ev.kind = "done"
          THEN /\ sPc' = "ended"
               /\ sResult' = [returned |-> TRUE, output |-> fullText, truncated |-> FALSE]
               /\ UNCHANGED <<sOut, fullText, tokenCount>>
          ELSE IF ev.kind = "bad" \/ ev.text = <<>>
          THEN UNCHANGED <<sPc, sOut, fullText, tokenCount, sResult>>
          ELSE /\ fullText' = text2
               /\ tokenCount' = count2
               /\ IF LimitReached(count2, enforcedLimit)
                  THEN /\ sOut' = Append(sOut, [event |-> "limit_notice", limit |-> enforcedLimit,
                                                rationale |-> limitInfo.rationale,
                                                delta |-> <<>>, tokens |-> count2])
                       /\ sPc' = "ended"
                       /\ sResult' = [returned |-> TRUE, output |-> text2, truncated |-> TRUE]
                  ELSE /\ sOut' = Append(sOut, [event |-> "delta", limit |-> enforcedLimit,
                                                rationale |-> "", delta |-> ev.text,
                                                tokens |-> count2])
                       /\ UNCHANGED <<sPc, sResult>>
    /\ UNCHANGED <<sPrompt, legacyCap, limitInfo, sInput>>
    /\ UNCHANGED <<gwVars, dlVars, agVars>>

\* iterate(): reader.read() reports done before any [DONE] sentinel
StreamEnd ==
    /\ sPc = "reading"
    /\ upstream = <<>>
    /\ sPc' = "ended"
    /\ sResult' = [returned |-> TRUE, output |-> fullText, truncated |-> FALSE]
    /\ UNCHANGED <<sPrompt, legacyCap, limitInfo, upstream, sOut, fullText, tokenCount, sInput>>
    /\ UNCHANGED <<gwVars, dlVars, agVars>>

NextStream == StreamFirst \/ StreamEvent \/ StreamEnd

SpecStream == InitStream /\ [][NextStream]_vars

\* ------------------------------------------------------------------ agent
gwRest == <<now, authCfg, jitter, rlTokens, rlLastRefill, cbState, cbEvents,
            aadTokenCache, req, rlWin, probeFailAt>>

isAzureConfigured == authCfg # "none"
hasUserConsent == ~userOptIn \/ userConsent
\* a gate that asks for consent whether or not a backend is configured
consentBlocks_offline == ~hasUserConsent

\* registry: if (isAzureConfigured()) requireConsent() throws
consentBlocks == isAzureConfigured /\ ~hasUserConsent

Models == {"gpt-5", "unknown"}
\* gpt-5 calls the gateway when it is configured; o3 and the other adapters
\* always answer with their stub
usesGateway(model) == model = "gpt-5" /\ isAzureConfigured
backendOf(model) == IF usesGateway(model) THEN "gateway" ELSE "stub"
BasePrompt == <<"P">>

Active(c) == calls[c].pc \notin {"idle", "done"}
FreeSlot(c) == ~Active(c) /\ \A q \in ASlots : q < c => Active(q)
\* the record of a call that has ended is handed to the caller at the next step
curCalls == [c \in ASlots |-> IF calls[c].pc = "done" THEN IdleCall ELSE calls[c]]

\* a record whose index does not advance
recordProvenance_stuck(rg, ix, cn, entry) ==
    [ring |-> [rg EXCEPT ![ix] = entry], index |-> ix, count |-> Min(cn + 1, ringSize)]

\* recordProvenance(): [ring, index, count]
recordProvenance(rg, ix, cn, entry) ==
    [ring |-> [rg EXCEPT ![ix] = entry],
     index |-> (ix + 1) % ringSize,
     count |-> Min(cn + 1, ringSize)]

RECURSIVE recordAll(_, _, _, _, _, _)
recordAll(rg, ix, cn, model, oks, t) ==
    IF oks = <<>> THEN [ring |-> rg, index |-> ix, count |-> cn]
    ELSE LET one == recordProvenance(rg, ix, cn, [ts |-> t, model |-> model, ok |-> Head(oks)])
         IN recordAll(one.ring, one.index, one.count, model, Tail(oks), t)

Recorded(model, oks) ==
    LET r == recordAll(ring, index, count, model, oks, now)
    IN ring' = r.ring /\ index' = r.index /\ count' = r.count

\* Agent.invoke that records the success as soon as the model has answered
invokeRecords_early(stage, threw) ==
    IF threw THEN <<FALSE>> ELSE IF stage = "model" THEN <<TRUE>> ELSE <<>>

\* Agent.invoke: the records appended when the call leaves `stage`, by the
\* catch block (threw) or on the way to the next await
invokeRecords(stage, threw) ==
    IF threw THEN <<FALSE>> ELSE IF stage = "after" THEN <<TRUE>> ELSE <<>>

\* Agent.invoke up to `await this.hooks.beforeInvoke(ctx)`
InvokeStart(c, model) ==
    /\ FreeSlot(c)
    /\ budget > 0
    /\ budget' = budget - 1
    /\ calls' = [curCalls EXCEPT ![c] = [IdleCall EXCEPT !.kind = "invoke", !.pc = "before",
                      !.model = model, !.prompt = BasePrompt]]
    /\ lastOp' = NoOp
    /\ UNCHANGED <<userOptIn, userConsent, continuations, nonce, ring, index, count, issued>>
    /\ UNCHANGED <<gwRest, stVars, dlVars>>

\* Agent.invoke leaves `stage`: it throws err (threw), or goes on to nextPc
InvokeStep(c, stage, threw, err, nextPc) ==
    LET oks == invokeRecords(stage, threw)
        ended == threw \/ nextPc = "done"
    IN /\ calls' = [curCalls EXCEPT ![c] = [@ EXCEPT
                       !.pc = IF ended THEN "done" ELSE nextPc,
                       !.result = IF threw THEN "threw" ELSE IF ended THEN "returned" ELSE "none",
                       !.error = IF threw THEN err ELSE "none",
                       !.source = IF ~threw /\ nextPc = "model" THEN backendOf(calls[c].model)
                                  ELSE @,
                       !.recs = @ \o oks]]
       /\ Recorded(calls[c].model, oks)
       /\ lastOp' = NoOp
       /\ UNCHANGED <<userOptIn, userConsent, continuations, nonce, issued>>
       /\ UNCHANGED <<gwRest, budget, stVars, dlVars>>

\* beforeInvoke has settled; invokeAny() up to the await of the model
InvokeBefore(c, hookThrows) ==
    /\ calls[c].kind = "invoke" /\ calls[c].pc = "before"
    /\ IF hookThrows THEN InvokeStep(c, "before", TRUE, "beforeInvoke", "done")
       ELSE IF calls[c].model = "unknown" THEN InvokeStep(c, "invokeAny", TRUE, "notfound", "done")
       ELSE IF consentBlocks THEN InvokeStep(c, "invokeAny", TRUE, "consent", "done")
       ELSE InvokeStep(c, "invokeAny", FALSE, "none", "model")

\* the model has answered (the stub always answers with a result)
InvokeModel(c, ok) ==
    /\ calls[c].kind = "invoke" /\ calls[c].pc = "model"
    /\ (~usesGateway(calls[c].model) => ok)
    /\ IF ok THEN InvokeStep(c, "model", FALSE, "none", "after")
       ELSE InvokeStep(c, "model", TRUE, "model", "done")

\* afterInvoke has settled
InvokeAfter(c, hookThrows) ==
    /\ calls[c].kind = "invoke" /\ calls[c].pc = "after"
    /\ IF hookThrows THEN InvokeStep(c, "after", TRUE, "afterInvoke", "done")
       ELSE InvokeStep(c, "after", FALSE, "none", "done")

\* ----------------------------------------------------- continuation store
\* a cleanup that removes nothing
cleanupContinuations_none(store, t) == store

\* _cleanupContinuations(): delete the contexts with now - ts > TTL
RECURSIVE cleanupContinuations(_, _)
cleanupContinuations(store, t) ==
    IF store = <<>> THEN <<>>
    ELSE IF t - Head(store).ts > continuationTTLms
         THEN cleanupContinuations(Tail(store), t)
         ELSE <<Head(store)>> \o cleanupContinuations(Tail(store), t)

RemoveAt(store, i) == SubSeq(store, 1, i - 1) \o SubSeq(store, i + 1, Len(store))
IndexOfId(store, id) ==
    IF \E i \in 1..Len(store) : store[i].id = id
    THEN CHOOSE i \in 1..Len(store) : store[i].id = id
    ELSE 0

\* Map.set(id, ctx)
mapSet(store, ctx) ==
    LET i == IndexOfId(store, ctx.id)
    IN IF i = 0 THEN Append(store, ctx) ELSE [store EXCEPT ![i] = ctx]

\* a size cap that deletes the context inserted last
evictOldest_newest(store) == SubSeq(store, 1, Len(store) - 1)

\* [...entries()].sort((a,b) => a[1].ts - b[1].ts)[0], deleted: the first
\* inserted of the contexts with the smallest ts (the sort is stable)
evictOldest(store) ==
    LET i == CHOOSE k \in 1..Len(store) :
                 \A j \in 1..Len(store) :
                     store[k].ts < store[j].ts \/ (store[k].ts = store[j].ts /\ k <= j)
    IN RemoveAt(store, i)

\* an insertion without the size cap
storeContinuation_noCap(store, ctx, t) == mapSet(cleanupContinuations(store, t), ctx)

\* Agent.stream on limit_notice: cleanup, insert, size cap
storeContinuation(store, ctx, t) ==
    LET added == mapSet(cleanupContinuations(store, t), ctx)
    IN IF Len(added) > continuationMax THEN evictOldest(added) ELSE added

\* continueStream: the prompt of the resumed stream (the output so far is
\* shorter than the 4000 characters kept of it)
continuationPrompt(ctx) ==
    ctx.prompt \o <<"[Prior partial output truncated]">> \o ctx.outputSoFar \o <<"Continue">>

StoreIds(store) == {store[i].id : i \in 1..Len(store)}

\* ------------------------------------------------------------ Agent.stream
\* invokeAnyStream(): what the synchronous part of Agent.stream ends in
openResult(model) ==
    IF model = "unknown" THEN "notfound"
    ELSE IF consentBlocks THEN "consent"
    ELSE "started"

\* the call record after Agent.stream({ prompt, model }) returned or threw
OpenedCall(model, prompt) ==
    IF openResult(model) = "started"
    THEN [IdleCall EXCEPT !.kind = "stream", !.pc = "open", !.model = model,
                          !.prompt = prompt]
    ELSE [IdleCall EXCEPT !.kind = "stream", !.pc = "done", !.model = model,
                          !.prompt = prompt,
                          !.result = "threw", !.error = openResult(model)]

AgentStream(c, model) ==
    /\ FreeSlot(c)
    /\ budget > 0
    /\ budget' = budget - 1
    /\ calls' = [curCalls EXCEPT ![c] = OpenedCall(model, BasePrompt)]
    /\ lastOp' = NoOp
    /\ UNCHANGED <<userOptIn, userConsent, continuations, nonce, ring, index, count, issued>>
    /\ UNCHANGED <<gwRest, stVars, dlVars>>

\* what the backend iterator of the call can produce next: the events of
\* iterate() when the gateway is configured, the chunks of the stub otherwise
NextChunks(call) ==
    IF usesGateway(call.model)
    THEN CASE call.inner = "start" -> {"limit_info", "error"}
           [] call.inner = "body" ->
                 {"limit_notice", "end", "error"}
                 \cup (IF call.deltas < MaxDeltas THEN {"delta"} ELSE {})
           [] OTHER -> {"end"}
    ELSE IF call.deltas < StubChunks THEN {"delta"} ELSE {"end"}

\* wrapped(): one turn of `for await (const chunk of iterator)`, or its end
AgentPull(c, x) ==
    /\ calls[c].kind = "stream" /\ calls[c].pc = "open"
    /\ x \in NextChunks(calls[c])
    /\ LET me == calls[c]
           id == <<now, nonce>>
           ctx == [id |-> id, ts |-> now, model |-> me.model, prompt |-> me.prompt,
                   outputSoFar |-> me.accumulated, limitMeta |-> me.limitMeta]
       IN CASE x = "limit_info" ->
                 /\ calls' = [curCalls EXCEPT ![c] = [@ EXCEPT !.source = backendOf(me.model),
                                  !.limitMeta = TRUE,
                                  !.inner = "body",
                                  !.last = [event |-> "limit_info", continuationId |-> NoId]]]
                 /\ UNCHANGED <<continuations, nonce, issued, ring, index, count>>
            [] x = "delta" ->
                 /\ calls' = [curCalls EXCEPT ![c] = [@ EXCEPT !.source = backendOf(me.model),
                                  !.accumulated = @ \o <<"x">>,
                                  !.deltas = @ + 1, !.inner = "body",
                                  !.last = [event |-> "delta", continuationId |-> NoId]]]
                 /\ UNCHANGED <<continuations, nonce, issued, ring, index, count>>
            [] x = "limit_notice" ->
                 /\ continuations' = storeContinuation(continuations, ctx, now)
                 /\ nonce' = nonce + 1
                 /\ issued' = issued \cup {id}
                 /\ calls' = [curCalls EXCEPT ![c] = [@ EXCEPT !.source = backendOf(me.model),
                                  !.inner = "noticed",
                                  !.last = [event |-> "limit_notice", continuationId |-> id]]]
                 /\ UNCHANGED <<ring, index, count>>
            [] x = "end" ->
                 /\ calls' = [curCalls EXCEPT ![c] = [@ EXCEPT !.source = backendOf(me.model),
                                  !.pc = "done",
                                  !.result = "returned", !.recs = @ \o <<TRUE>>]]
                 /\ Recorded(me.model, <<TRUE>>)
                 /\ UNCHANGED <<continuations, nonce, issued>>
            [] OTHER ->
                 /\ calls' = [curCalls EXCEPT ![c] = [@ EXCEPT !.source = backendOf(me.model),
                                  !.pc = "done",
                                  !.result = "threw", !.error = "stream",
                                  !.recs = @ \o <<FALSE>>]]
                 /\ Recorded(me.model, <<FALSE>>)
                 /\ UNCHANGED <<continuations, nonce, issued>>
    /\ lastOp' = NoOp
    /\ UNCHANGED <<userOptIn, userConsent>>
    /\ UNCHANGED <<gwRest, budget, stVars, dlVars>>

\* the consumer leaves its loop after a chunk: the generator is closed at
\* its yield
AgentAbandon(c) ==
    /\ calls[c].kind = "stream" /\ calls[c].pc = "open"
    /\ calls[c].last.event # "none"
    /\ calls' = [curCalls EXCEPT ![c] = [@ EXCEPT !.pc = "done", !.result = "abandoned"]]
    /\ lastOp' = NoOp
    /\ UNCHANGED <<userOptIn, userConsent, continuations, nonce, ring, index, count, issued>>
    /\ UNCHANGED <<gwRest, budget, stVars, dlVars>>

\* the ids a caller can pass to continueStream
ResumeIds == issued \cup {NoId}

\* a continueStream that takes the context out of the store as it resumes
ContinueStream_consuming(c, id) ==
    /\ FreeSlot(c)
    /\ budget > 0
    /\ budget' = budget - 1
    /\ LET i == IndexOfId(continuations, id)
       IN IF i = 0
          THEN /\ lastOp' = [NoOp EXCEPT !.op = "continueStream", !.id = id, !.result = "unknown"]
               /\ calls' = curCalls
               /\ UNCHANGED continuations
          ELSE IF now - continuations[i].ts > continuationTTLms
          THEN /\ lastOp' = [NoOp EXCEPT !.op = "continueStream", !.id = id, !.result = "expired"]
               /\ calls' = curCalls
               /\ continuations' = RemoveAt(continuations, i)
          ELSE LET ctx == continuations[i]
               IN /\ lastOp' = [NoOp EXCEPT !.op = "continueStream", !.id = id,
                                            !.result = openResult(ctx.model)]
                  /\ calls' = [curCalls EXCEPT
                                  ![c] = IF openResult(ctx.model) = "started"
                                         THEN OpenedCall(ctx.model, continuationPrompt(ctx))
                                         ELSE @]
                  /\ continuations' = RemoveAt(continuations, i)
    /\ UNCHANGED <<userOptIn, userConsent, nonce, ring, index, count, issued>>
    /\ UNCHANGED <<gwRest, stVars, dlVars>>

\* Agent.continueStream({ continuationId })
ContinueStream(c, id) ==
    /\ FreeSlot(c)
    /\ budget > 0
    /\ budget' = budget - 1
    /\ LET i == IndexOfId(continuations, id)
       IN IF i = 0
          THEN /\ lastOp' = [NoOp EXCEPT !.op = "continueStream", !.id = id, !.result = "unknown"]
               /\ calls' = curCalls
               /\ UNCHANGED continuations
          ELSE IF now - continuations[i].ts > continuationTTLms
          THEN /\ lastOp' = [NoOp EXCEPT !.op = "continueStream", !.id = id, !.result = "expired"]
               /\ calls' = curCalls
               /\ continuations' = RemoveAt(continuations, i)
          ELSE LET ctx == continuations[i]
               IN /\ lastOp' = [NoOp EXCEPT !.op = "continueStream", !.id = id,
                                            !.result = openResult(ctx.model)]
                  /\ calls' = [curCalls EXCEPT
                                  ![c] = IF openResult(ctx.model) = "started"
                                         THEN OpenedCall(ctx.model, continuationPrompt(ctx))
                                         ELSE @]
                  /\ UNCHANGED continuations
    /\ UNCHANGED <<userOptIn, userConsent, nonce, ring, index, count, issued>>
    /\ UNCHANGED <<gwRest, stVars, dlVars>>

\* Agent.listContinuations()
ListContinuations ==
    /\ LET kept == cleanupContinuations(continuations, now)
       IN /\ continuations' = kept
          /\ lastOp' = [NoOp EXCEPT !.op = "list",
                                    !.listed = [i \in 1..Len(kept) |-> kept[i].id]]
    /\ calls' = curCalls
    /\ UNCHANGED <<userOptIn, userConsent, nonce, ring, index, count, issued>>
    /\ UNCHANGED <<gwRest, budget, stVars, dlVars>>

\* consent.js: setUserConsent(value)
SetUserConsent(v) ==
    /\ userConsent # v
    /\ userConsent' = v
    /\ calls' = curCalls
    /\ lastOp' = NoOp
    /\ UNCHANGED <<userOptIn, continuations, nonce, ring, index, count, issued>>
    /\ UNCHANGED <<gwRest, budget, stVars, dlVars>>

\* time passes
TickAgent ==
    /\ now < MaxAgentTime
    /\ now' = now + 1
    /\ calls' = curCalls
    /\ lastOp' = NoOp
    /\ UNCHANGED <<userOptIn, userConsent, continuations, nonce, ring, index, count, issued>>
    /\ UNCHANGED <<authCfg, jitter, rlTokens, rlLastRefill, cbState, cbEvents,
                   aadTokenCache, req, budget, rlWin, probeFailAt>>
    /\ UNCHANGED <<stVars, dlVars>>

\* an agent in a process with or without a configured backend
InitAgent ==
    /\ InitGateway
    /\ NoStream
    /\ NoBackoff
    /\ authCfg \in {"api-key", "none"}
    /\ jitter = "none"
    /\ budget = MaxAgentCalls
    /\ userOptIn \in BOOLEAN
    /\ userConsent = FALSE
    /\ continuations = <<>>
    /\ nonce = 0
    /\ ring = [i \in 0..(ringSize - 1) |-> NoEntry]
    /\ index = 0
    /\ count = 0
    /\ calls = [c \in ASlots |-> IdleCall]
    /\ issued = {}
    /\ lastOp = NoOp

\* the agent is used for single-shot invocations
NextInvoke ==
    \/ \E c \in ASlots, m \in Models : InvokeStart(c, m)
    \/ \E c \in ASlots, h \in BOOLEAN : InvokeBefore(c, h)
    \/ \E c \in ASlots, ok \in BOOLEAN : InvokeModel(c, ok)
    \/ \E c \in ASlots, h \in BOOLEAN : InvokeAfter(c, h)
    \/ \E v \in BOOLEAN : SetUserConsent(v)
    \/ TickAgent

SpecInvoke == InitAgent /\ [][NextInvoke]_vars

\* the agent is used for streams and their continuations
NextAgent ==
    \/ \E c \in ASlots, m \in Models : AgentStream(c, m)
    \/ \E c \in ASlots, x \in {"limit_info", "delta", "limit_notice", "end", "error"} :
          AgentPull(c, x)
    \/ \E c \in ASlots : AgentAbandon(c)
    \/ \E c \in ASlots, id \in ResumeIds : ContinueStream(c, id)
    \/ ListContinuations
    \/ \E v \in BOOLEAN : SetUserConsent(v)
    \/ TickAgent

SpecAgent == InitAgent /\ [][NextAgent]_vars

\* the agent is used for invocations and streams of its registered models,
\* while the user grants and withdraws consent
NextConsent ==
    \/ \E c \in ASlots, m \in {"gpt-5", "o3"} : InvokeStart(c, m)
    \/ \E c \in ASlots, h \in BOOLEAN : InvokeBefore(c, h)
    \/ \E c \in ASlots, ok \in BOOLEAN : InvokeModel(c, ok)
    \/ \E c \in ASlots, h \in BOOLEAN : InvokeAfter(c, h)
    \/ \E c \in ASlots, m \in {"gpt-5", "o3"} : AgentStream(c, m)
    \/ \E c \in ASlots, x \in {"limit_info", "delta", "limit_notice", "end", "error"} :
          AgentPull(c, x)
    \/ \E v \in BOOLEAN : SetUserConsent(v)

SpecConsent == InitAgent /\ [][NextConsent]_vars

\* ------------------------------------------------- the provenance ring
MaxRecordings == 4       \* records written in one behaviour of the ring
DefaultListLimit == 50   \* listProvenance({ limit = 50 })
ListLimits == (0..(MaxRecordings + 1)) \cup {DefaultListLimit}

\* listProvenance(): the loop from iteration i on, out being filled so far
RECURSIVE listFrom(_, _, _, _, _, _)
listFrom(rg, ix, cn, limit, i, out) ==
    IF i >= cn THEN out
    ELSE LET pos == (ix - 1 - i + ringSize) % ringSize
             out2 == IF rg[pos] # NoEntry THEN Append(out, rg[pos]) ELSE out
         IN IF Len(out2) >= limit THEN out2
            ELSE listFrom(rg, ix, cn, limit, i + 1, out2)

\* listProvenance({ limit })
listProvenance(rg, ix, cn, limit) == listFrom(rg, ix, cn, limit, 0, <<>>)

\* the provenance module, loaded and empty
InitRing ==
    /\ InitGateway
    /\ NoStream
    /\ NoBackoff
    /\ NoAgent
    /\ authCfg = "none"
    /\ jitter = "none"
    /\ budget = 0

\* recordProvenance({ model, prompt, result | error, latencyMs })
RecordEntry(model, ok) ==
    /\ Len(provLog) < MaxRecordings
    /\ LET entry == [ts |-> now, model |-> model, ok |-> ok]
           r == recordProvenance(ring, index, count, entry)
       IN /\ ring' = r.ring /\ index' = r.index /\ count' = r.count
          /\ provLog' = Append(provLog, entry)
    /\ lastOp' = NoOp
    /\ UNCHANGED <<userOptIn, userConsent, continuations, nonce, calls, issued>>
    /\ UNCHANGED <<backoff, policy, pair, brk, gwVars, stVars>>

\* listProvenance({ limit })
ListProvenance(limit) ==
    /\ lastOp' = [NoOp EXCEPT !.op = "listProvenance", !.id = <<limit, count>>,
                              !.listed = listProvenance(ring, index, count, limit)]
    /\ UNCHANGED <<userOptIn, userConsent, continuations, nonce, ring, index, count, calls, issued>>
    /\ UNCHANGED <<gwVars, stVars, dlVars>>

\* clearProvenance()
ClearProvenance ==
    /\ count > 0
    /\ ring' = [i \in 0..(ringSize - 1) |-> NoEntry]
    /\ index' = 0
    /\ count' = 0
    /\ provLog' = <<>>
    /\ lastOp' = NoOp
    /\ UNCHANGED <<userOptIn, userConsent, continuations, nonce, calls, issued>>
    /\ UNCHANGED <<backoff, policy, pair, brk, gwVars, stVars>>

NextRing ==
    \/ \E m \in Models, ok \in BOOLEAN : RecordEntry(m, ok)
    \/ \E l \in ListLimits : ListProvenance(l)
    \/ ClearProvenance
    \/ TickAgent

SpecRing == InitRing /\ [][NextRing]_vars

\* ------------------------------------------- the content of a record
\* Text is a sequence of characters; "eacute" stands for a character of two
\* UTF-8 bytes.
PromptTexts == {<<"a", "b">>, <<"b", "a">>, <<"eacute">>, <<"a">>}
OutputTexts == {<<"x">>, <<"y", "z">>}
\* hashPrompt() takes SHA-256 where node:crypto loads: any function from
\* texts to digests, those with collisions included
Digests == {<<"d1">>, <<"d2">>}
\* null, where a string or an object can stand
Null == <<"null">>
NoResult == [present |-> FALSE, output |-> <<>>, usage |-> Null]

RECURSIVE byteLength(_)
byteLength(text) ==
    IF text = <<>> THEN 0
    ELSE (IF Head(text) = "eacute" THEN 2 ELSE 1) + byteLength(Tail(text))

\* One call of the agent as the record sees it: the prompt, and how the
\* call went: the output and usage of the backend, or the message of the
\* error thrown (none of the messages of the gateway, the registry or the
\* consent gate is built from the prompt or the output).
AgentCallsSeen ==
    [via : {"invoke", "stream"}, model : {"gpt-5", "o3"}, prompt : PromptTexts,
     output : OutputTexts, usage : {Null, <<"counts">>},
     error : {Null, <<"Azure OpenAI error 500">>, <<"User consent required">>}]

\* the argument Agent.invoke / Agent.stream passes to recordProvenance
provenanceArgs(call) ==
    IF call.error # Null
    THEN [model |-> call.model, prompt |-> call.prompt, result |-> NoResult,
          error |-> call.error]
    ELSE IF call.via = "invoke"
    THEN [model |-> call.model, prompt |-> call.prompt,
          result |-> [present |-> TRUE, output |-> call.output, usage |-> call.usage],
          error |-> Null]
    ELSE [model |-> call.model, prompt |-> call.prompt,
          result |-> [NoResult EXCEPT !.present = TRUE], error |-> Null]

\* an entry that keeps the prompt where its hash belongs
provenanceEntry_rawPrompt(args, sha, t, rnd) ==
    [id |-> <<t, rnd>>, ts |-> t, model |-> <<args.model>>,
     promptHash |-> args.prompt, promptBytes |-> byteLength(args.prompt),
     ok |-> args.error = Null, error |-> args.error,
     usage |-> args.result.usage,
     limit |-> Null, limitRationale |-> Null, truncated |-> FALSE, continuationOf |-> Null]

\* recordProvenance(): the entry (latencyMs, a duration, is left out)
provenanceEntry(args, sha, t, rnd) ==
    [id |-> <<t, rnd>>, ts |-> t, model |-> <<args.model>>,
     promptHash |-> sha[args.prompt], promptBytes |-> byteLength(args.prompt),
     ok |-> args.error = Null, error |-> args.error,
     usage |-> args.result.usage,
     limit |-> Null, limitRationale |-> Null, truncated |-> FALSE, continuationOf |-> Null]

\* the calls that differ from `call` in one respect
Variants(call) ==
    {[call EXCEPT !.prompt = x] : x \in PromptTexts}
    \cup {[call EXCEPT !.output = x] : x \in OutputTexts}
    \cup {[call EXCEPT !.model = x] : x \in {"gpt-5", "o3"}}
    \cup {[call EXCEPT !.error = x] : x \in {Null, <<"Azure OpenAI error 500">>}}

\* two calls are about to be recorded
InitRecord ==
    /\ InitGateway
    /\ NoStream
    /\ NoAgent
    /\ authCfg = "api-key"
    /\ jitter = "none"
    /\ budget = 0
    /\ backoff = [retries |-> 0, base |-> 0, max |-> 0, attempt |-> 0, answer |-> Throw, delay |-> -1]
    /\ policy = NoPolicy
    /\ provLog = <<>>
    /\ brk = NoBreaker
    /\ \E sha \in [PromptTexts -> Digests], a \in AgentCallsSeen :
          \E b \in Variants(a) :
             pair = [pc |-> "new", sha |-> sha, a |-> a, b |-> b]

\* recordProvenance() for each of the two
RecordPair ==
    /\ pair.pc = "new"
    /\ pair' = [pc |-> "done", sha |-> pair.sha, a |-> pair.a, b |-> pair.b,
                entryA |-> provenanceEntry(provenanceArgs(pair.a), pair.sha, now, 0),
                entryB |-> provenanceEntry(provenanceArgs(pair.b), pair.sha, now, 0)]
    /\ UNCHANGED <<backoff, policy, provLog, brk, gwVars, stVars, agVars>>

NextRecord == RecordPair

SpecRecord == InitRecord /\ [][NextRecord]_vars

\* ------------------------------ the circuit breaker, under any threshold
MaxThreshold == 3      \* largest AZURE_CB_THRESHOLD
MaxBreakerCalls == 4   \* fetchWithRetry calls made on the breaker

\* the module is loaded: the breaker is closed
InitBreaker ==
    /\ InitGateway
    /\ NoStream
    /\ NoAgent
    /\ authCfg = "api-key"
    /\ jitter = "none"
    /\ budget = 0
    /\ backoff = [retries |-> 0, base |-> 0, max |-> 0, attempt |-> 0, answer |-> Throw, delay |-> -1]
    /\ policy = NoPolicy
    /\ provLog = <<>>
    /\ pair = NoPair
    /\ \E th \in 1..MaxThreshold :
          brk = [pc |-> "on", th |-> th, inflight |-> 0, calls |-> 0, at |-> 0,
                 cb |-> [open |-> FALSE, failures |-> 0, openedAt |-> 0,
                         halfOpenProbe |-> FALSE]]

\* the gates of fetchWithRetry: circuitShouldBlock(), then takeToken(), which
\* answers false when limited; a call that passes both goes on to report
BreakerCall(limited) ==
    /\ brk.pc = "on"
    /\ brk.calls < MaxBreakerCalls
    /\ LET b == circuitShouldBlock(brk.cb, <<>>, brk.at)
       IN brk' = [brk EXCEPT !.cb = b.cb, !.calls = @ + 1,
                             !.inflight = IF b.blocked \/ limited THEN @ ELSE @ + 1]
    /\ UNCHANGED <<backoff, policy, provLog, pair, gwVars, stVars, agVars>>

\* the circuitReport() call that ends fetchWithRetry
BreakerOutcome(success) ==
    /\ brk.pc = "on"
    /\ brk.inflight > 0
    /\ brk' = [brk EXCEPT !.cb = circuitReportWith(brk.cb, <<>>, success, brk.at, brk.th).cb,
                          !.inflight = @ - 1]
    /\ UNCHANGED <<backoff, policy, provLog, pair, gwVars, stVars, agVars>>

BreakerTick ==
    /\ brk.pc = "on"
    /\ brk.at < MaxTime
    /\ brk' = [brk EXCEPT !.at = @ + 1]
    /\ UNCHANGED <<backoff, policy, provLog, pair, gwVars, stVars, agVars>>

NextBreaker ==
    \/ \E limited \in BOOLEAN : BreakerCall(limited)
    \/ \E success \in BOOLEAN : BreakerOutcome(success)
    \/ BreakerTick

SpecBreaker == InitBreaker /\ [][NextBreaker]_vars

\* ------------------------------------------------------------------ claims
AdmitStep(p) == req[p].pc \notin {"fetching", "sleeping"} /\ req'[p].pc = "fetching"
TakeStep(p) == AdmitStep(p) \/ (req[p].pc # "done" /\ req'[p].outcome = "ratelimit")
EndStep(p) == req[p].pc = "fetching" /\ req'[p].pc = "done"
EverOpened == \E i \in 1..Len(cbEvents) : cbEvents[i].event = "open"
Admitted(p) == req[p].fetches > 0

\* C1: once `threshold` consecutive terminal failures have been reported the
\* breaker is open, and no request is admitted at a time when less than
\* cooldownMs has elapsed since the breaker opened.
C1_OpenBlocksUntilCooldown ==
    [][ /\ (cbState'.failures >= threshold => cbState'.open)
        /\ \A p \in Reqs :
             (AdmitStep(p) /\ EverOpened) => (now - cbState.openedAt) >= cooldownMs ]_vars

\* C2: a failed half-open probe re-opens the breaker with openedAt set to the
\* time of the failure, and no request is admitted until cooldownMs has
\* elapsed since that failure.
C2_ProbeFailureRestartsCooldown ==
    [][ /\ \A p \in Reqs :
             (EndStep(p) /\ req[p].probe /\ req'[p].reports = <<FALSE>>)
                => (cbState'.open /\ cbState'.openedAt = now)
        /\ \A p \in Reqs :
             (AdmitStep(p) /\ probeFailAt >= 0) => (now - probeFailAt) >= cooldownMs ]_vars

\* C3: while a half-open probe is in flight (admitted, outcome not yet
\* reported) no other request is admitted.
C3_SingleProbe ==
    [][ \A p \in Reqs :
          AdmitStep(p) => ~(\E q \in Reqs : q # p /\ req[q].probe /\ InFlight(q)) ]_vars

\* C4: in one refill window at most rlCapacity requests are admitted; an
\* acquisition that follows rlCapacity acquisitions of the same window fails;
\* an acquisition made rlRefillMs or more after the last refill succeeds and
\* leaves a bucket that was reset to rlCapacity.
C4_TokenBucket ==
    /\ [](rlWin.adm <= rlCapacity)
    /\ [][ \A p \in Reqs : TakeStep(p) =>
             IF (now - rlLastRefill) >= rlRefillMs
             THEN req'[p].pc = "fetching" /\ rlTokens' = rlCapacity - 1 /\ rlLastRefill' = now
             ELSE /\ (rlWin.acq >= rlCapacity => req'[p].outcome = "ratelimit")
                  /\ (rlWin.acq < rlCapacity => req'[p].pc = "fetching") ]_vars

\* the (rlCapacity+1)-th acquisition of a window that began with a refill was refused
C4_Witness ==
    /\ rlLastRefill > 0
    /\ rlWin.acq = rlCapacity + 1
    /\ rlWin.adm = rlCapacity
    /\ \E p \in Reqs : req[p].outcome = "ratelimit"

\* C5: a request whose every attempt ended in a retriable status or a network
\* exception made exactly retries+1 attempts and threw the error whose meta
\* has attempts = retries+1 and lastStatus = the last status received.
C5_RetryExhaustion ==
    \A p \in Reqs :
        /\ req[p].fetches <= retries + 1
        /\ (req[p].pc = "done" /\ Admitted(p) /\ req[p].allRetriable)
             => /\ req[p].fetches = retries + 1
                /\ req[p].outcome = "exhausted"
                /\ req[p].metaAttempts = retries + 1
                /\ req[p].metaLastStatus = req[p].lastResp
        /\ (req[p].outcome = "exhausted" => req[p].allRetriable)

\* a request was exhausted after a response with a status and a last attempt that threw
C5_Witness ==
    \E p \in Reqs : /\ req[p].outcome = "exhausted"
                    /\ req[p].metaAttempts = retries + 1
                    /\ req[p].metaLastStatus \in RETRIABLE_STATUS

\* C6: an admitted request has reported to the breaker exactly once when it
\* ends, success exactly if its response is ok; before its end it has
\* reported nothing, and a request refused at a gate reports nothing; the
\* breaker's failure count moves only in the step that ends a request.
C6_ReportOnce ==
    /\ [](\A p \in Reqs :
            /\ (req[p].pc = "done" /\ Admitted(p))
                   => (Len(req[p].reports) = 1 /\ req[p].reports[1] = (req[p].outcome = "ok"))
            /\ (req[p].pc # "done" => req[p].reports = <<>>)
            /\ (req[p].outcome \in {"circuit", "ratelimit"} => req[p].reports = <<>>))
    /\ [][ cbState'.failures # cbState.failures => \E p \in Reqs : EndStep(p) ]_vars

\* a request succeeded on its second attempt: one report, of success, and
\* the failed first attempt left no trace in the breaker
C6_Witness ==
    \E p \in Reqs : /\ req[p].pc = "done" /\ req[p].fetches = 2
                    /\ req[p].outcome = "ok"
                    /\ req[p].reports = <<TRUE>>
                    /\ cbState.failures = 0
                    /\ cbEvents = <<>>

Pos(s, x) == IF \E i \in 1..Len(s) : s[i] = x
             THEN CHOOSE i \in 1..Len(s) : s[i] = x /\ \A j \in 1..(i - 1) : s[j] # x
             ELSE 0

\* C7: a call consults the rate limiter before the breaker, and resolves
\* credentials only after both gates have passed and before the network call.
C7_GateOrder ==
    \A p \in Reqs :
        LET s == req[p].steps IN
        /\ (Pos(s, "breaker") > 0 /\ Pos(s, "limiter") > 0) => Pos(s, "limiter") < Pos(s, "breaker")
        /\ Pos(s, "cred") > 0
             => /\ Pos(s, "limiter") > 0 /\ Pos(s, "limiter") < Pos(s, "cred")
                /\ Pos(s, "breaker") > 0 /\ Pos(s, "breaker") < Pos(s, "cred")

\* C8: a call refused by the rate limiter or by the breaker has made no
\* network request, neither to the chat endpoint nor to the token endpoint.
C8_RejectionWithoutNetwork ==
    \A p \in Reqs :
        req[p].outcome \in {"circuit", "ratelimit"}
            => (req[p].fetches = 0 /\ req[p].tokenFetches = 0)

Notices == {i \in 1..Len(sOut) : sOut[i].event = "limit_notice"}

\* the text of the deltas that iterate() takes in among the first k events
RECURSIVE TextOfPrefix(_, _)
TextOfPrefix(events, k) ==
    IF k = 0 THEN <<>>
    ELSE TextOfPrefix(events, k - 1)
         \o (IF events[k].kind = "delta" /\ events[k].bytes <= maxEventBytes
             THEN events[k].text ELSE <<>>)

\* the events before the natural end of the response ([DONE], or its last event)
BeforeNaturalEnd(events) ==
    {k \in 1..Len(events) :
        \A j \in 1..k : ~(events[j].kind = "done" /\ events[j].bytes <= maxEventBytes)}

EstimateReachesLimit ==
    \E k \in BeforeNaturalEnd(sInput) : countTokens(TextOfPrefix(sInput, k)) >= enforcedLimit

\* C9: a stream yields limit_notice at most once and as its last event; a
\* stream that has ended yielded it exactly if the running token estimate
\* reached the enforced limit before the natural end of the response.
C9_LimitNoticeOnce ==
    /\ Cardinality(Notices) <= 1
    /\ \A i \in Notices : i = Len(sOut)
    /\ (Notices # {} => sPc = "ended")
    /\ (sPc = "ended" => (Notices # {} <=> EstimateReachesLimit))

\* a stream was cut by limit_notice after limit_info and a delta
C9_Witness ==
    /\ sPc = "ended"
    /\ Len(sOut) >= 3
    /\ sOut[Len(sOut)].event = "limit_notice"
    /\ sOut[2].event = "delta"
    /\ upstream # <<>>

\* C10: the response "Hello", "World", "Overflow" under a token cap of 2 ends
\* with a limit event in the produced sequence and a result marked truncated.
C10_HelloWorldOverflow ==
    (sPc = "ended" /\ legacyCap = 2
        /\ sInput = <<Delta(Hello), Delta(World), Delta(Overflow)>>)
      => (Notices # {} /\ sResult.truncated)

\* the state of the breaker right after circuitReport(true)
C14_Closed(cb) == ~cb.open /\ ~cb.halfOpenProbe /\ cb.failures = 0

C15_TokensInRange == 0 <= rlTokens /\ rlTokens <= rlCapacity

\* the bucket was refilled, then emptied, then refused an acquisition
C15_Witness ==
    /\ rlLastRefill > 0
    /\ rlTokens = 0
    /\ rlWin.acq > rlWin.adm

SleepsNow == backoff.delay = -1 /\ backoff'.delay >= 0
CappedExp == Min(backoff.max, backoff.base * Pow2(backoff.attempt))

\* C16: after a 429 answer with Retry-After of n seconds the loop sleeps
\* min(n*1000, max) milliseconds, for every n >= 0; after another retriable
\* status the header does not change the delay.
C16_RetryAfterOverrides ==
    [][ SleepsNow =>
          LET r == backoff'.answer
              d == backoff'.delay
          IN /\ (r.kind = "resp" /\ r.status = 429 /\ r.ra.form = "secs")
                   => d = Min(r.ra.n * 1000, backoff.max)
             /\ (r.kind = "resp" /\ r.status # 429)
                   => (IF jitter = "none" THEN d = CappedExp ELSE d >= 0 /\ d <= CappedExp) ]_vars

\* C17 as stated: whatever the answer, the sleep after failed attempt n is
\* min(max, base * 2^n) without jitter, between 0 and that with full jitter.
C17_Original ==
    [][ SleepsNow =>
          LET d == backoff'.delay
          IN /\ (jitter = "none" => d = CappedExp)
             /\ (jitter = "full" => (d >= 0 /\ d <= CappedExp))
             /\ d <= backoff.max ]_vars

\* C17: unless the failed attempt is a 429 answer that carries a Retry-After
\* header, the sleep after failed attempt n is min(max, base * 2^n) without
\* jitter and between 0 and that value with full jitter; no sleep, Retry-After
\* or not, is longer than max.
C17_BackoffDelay ==
    [][ SleepsNow =>
          LET r == backoff'.answer
              d == backoff'.delay
              byHeader == r.kind = "resp" /\ r.status = 429 /\ r.ra.form # "none"
          IN /\ (~byHeader /\ jitter = "none") => d = CappedExp
             /\ (~byHeader /\ jitter = "full") => (d >= 0 /\ d <= CappedExp)
             /\ d <= backoff.max ]_vars

\* without jitter the loop sleeps max after an attempt whose exponential
\* delay is above max
C17_Witness ==
    /\ jitter = "none"
    /\ backoff.delay = backoff.max
    /\ backoff.base * Pow2(backoff.attempt) > backoff.max
    /\ backoff.attempt > 0
    /\ backoff.answer.kind = "throw"

\* the step in which azureInvokeChat is called for slot p
StartStep(p) == budget' < budget /\ ~InFlight(p) /\ req'[p].pc # "idle"

\* C18: with client credentials a call uses the cached token, and makes no
\* token request, only if the cache is set and expiresAt - 5 min > now;
\* otherwise it requests a token, and the answer of a successful token
\* request replaces the cache with expiresAt = time of the request + expires_in.
C18_CachedTokenWindow ==
    [][ \A p \in Reqs :
          /\ (StartStep(p) /\ authCfg = "aad" /\ req'[p].outcome \notin {"config", "nodeploy"})
                => IF aadTokenCache.set /\ (aadTokenCache.expiresAt - 300000) > now
                   THEN req'[p].tokenFetches = 0 /\ req'[p].auth = "bearer"
                        /\ aadTokenCache' = aadTokenCache
                   ELSE req'[p].pc = "token" /\ req'[p].tokenFetches = 1
                        /\ req'[p].fetches = 0
          /\ (req[p].pc = "token" /\ req'[p].pc # "token")
                => IF req'[p].outcome = "auth"
                   THEN aadTokenCache' = aadTokenCache
                   ELSE /\ aadTokenCache'.set
                        /\ \E tr \in TokenResponses :
                              /\ tr.kind = "ok"
                              /\ aadTokenCache'.expiresAt = req[p].tokenNow + tr.expiresIn * 1000
                        /\ req'[p].auth = "bearer" ]_vars

\* a call requests a new token although the cache holds one, because that
\* token is inside the safety window
C18_Witness ==
    /\ aadTokenCache.set
    /\ (aadTokenCache.expiresAt - 300000) <= now
    /\ aadTokenCache.expiresAt > now
    /\ \E p \in Reqs : req[p].pc = "token" /\ req[p].tokenNow > 0

\* C19: a request that reached the chat-completions endpoint carries a
\* credential: the api-key header, with no token request, when an API key is
\* configured; a Bearer token when only client credentials are; with neither
\* the call ends with the configuration error and no network request.
C19_NeverUnauthenticated ==
    \A p \in Reqs :
        /\ (req[p].fetches > 0 => req[p].auth # "none")
        /\ (authCfg = "api-key"
              => (req[p].tokenFetches = 0 /\ (req[p].fetches > 0 => req[p].auth = "api-key")))
        /\ (authCfg = "aad" => (req[p].fetches > 0 => req[p].auth = "bearer"))
        /\ (authCfg = "none"
              => /\ req[p].fetches = 0 /\ req[p].tokenFetches = 0
                 /\ (req[p].pc # "idle" => req[p].outcome = "config"))

\* with client credentials a request got its token and was sent with it
C19_Witness ==
    /\ authCfg = "aad"
    /\ \E p \in Reqs : /\ req[p].fetches > 0 /\ req[p].tokenFetches = 1
                        /\ req[p].auth = "bearer"

\* C20: a stream that has been pulled at least once has yielded limit_info
\* as its first event and never again; before the first pull it has yielded
\* nothing.
C20_LimitInfoFirst ==
    /\ (sPc = "new" => sOut = <<>>)
    /\ (sPc \in {"reading", "ended"}
          => /\ Len(sOut) >= 1
             /\ sOut[1].event = "limit_info"
             /\ \A i \in 2..Len(sOut) : sOut[i].event # "limit_info")

\* a stream ended at [DONE] after limit_info and two deltas, without limit_notice
C20_Witness ==
    /\ sPc = "ended"
    /\ Len(sOut) = 3
    /\ sOut[1].event = "limit_info"
    /\ sOut[2].event = "delta" /\ sOut[3].event = "delta"
    /\ ~sResult.truncated
    /\ upstream = <<>>
    /\ sInput[Len(sInput)].kind = "done"

\* the raw events that iterate() has taken from the buffer so far
Consumed == SubSeq(sInput, 1, Len(sInput) - Len(upstream))
\* an event within the size limit whose data line is a JSON chunk with content
WellFormed(ev) == ev.kind = "delta" /\ ev.bytes <= maxEventBytes /\ ev.text # <<>>
\* an event over the size limit, or whose data line is not JSON
Anomalous(ev) == ev.bytes > maxEventBytes \/ ev.kind = "bad"
DeltaTexts(out) == [i \in 1..Len(SelectSeq(out, LAMBDA e : e.event = "delta")) |->
                       SelectSeq(out, LAMBDA e : e.event = "delta")[i].delta]
ContentOf(events) == [i \in 1..Len(SelectSeq(events, WellFormed)) |->
                         SelectSeq(events, WellFormed)[i].text]
ButLast(s) == SubSeq(s, 1, Len(s) - 1)

\* the step that takes an anomalous event leaves the stream as it was
C21_SkipStep ==
    (upstream # <<>> /\ upstream' = Tail(upstream) /\ Anomalous(Head(upstream)))
        => (sPc' = "reading" /\ sOut' = sOut /\ fullText' = fullText
            /\ tokenCount' = tokenCount /\ sResult' = sResult)

Evaluated == policy.pc = "done"
IsShort == policy.prompt.len < 40
Floor34(n) == (3 * n) \div 4
Floor54(n) == (5 * n) \div 4
Clamped == policy.adjusted > policy.hardMax \/ policy.adjusted < 100

\* C22: the value evaluateStreamingLimit holds before clamping is
\* floor(floor(base*0.75)*1.25) for a short prompt with a keyword (750 for
\* the base 800), floor(base*0.75) for a short prompt without keyword,
\* floor(base*1.25) for a long prompt with keyword and the base otherwise;
\* it is the returned limit whenever no clamp applies.
C22_ReductionThenBoost ==
    Evaluated =>
        /\ policy.adjusted =
              IF IsShort /\ policy.prompt.keyword THEN Floor54(Floor34(policy.base))
              ELSE IF IsShort THEN Floor34(policy.base)
              ELSE IF policy.prompt.keyword THEN Floor54(policy.base)
              ELSE policy.base
        /\ (IsShort /\ policy.prompt.keyword /\ policy.base = 800 => policy.adjusted = 750)
        /\ (~Clamped => policy.result.limit = policy.adjusted)

\* the default base with a short prompt that holds a keyword: 750, unclamped
C22_Witness ==
    /\ Evaluated
    /\ policy.base = 800 /\ policy.hardMax = 2000
    /\ IsShort /\ policy.prompt.keyword
    /\ policy.result.limit = 750

\* C23 as stated: the returned limit is never above the configured hard
\* maximum and never below 100.
C23_Original ==
    Evaluated => (policy.result.limit <= policy.hardMax /\ policy.result.limit >= 100)

\* C23: the returned limit is never below 100; it is never above the
\* configured hard maximum when that is at least 100, and it is exactly 100
\* when the hard maximum is below 100.
C23_LimitClamped ==
    Evaluated =>
        /\ policy.result.limit >= 100
        /\ (policy.hardMax >= 100 => policy.result.limit <= policy.hardMax)
        /\ (policy.hardMax < 100 => policy.result.limit = 100)

\* a boosted limit above a hard maximum of 150 came back as 150
C23_Witness ==
    /\ Evaluated
    /\ policy.hardMax = 150
    /\ policy.adjusted > 150
    /\ policy.result.limit = 150

\* the step in which the stream of slot c yields limit_notice
NoticeStep(c) ==
    /\ calls[c].pc = "open" /\ calls[c].last.event # "limit_notice"
    /\ calls'[c].last.event = "limit_notice"
\* the step in which continueStream is called
ResumeStep == budget' < budget /\ lastOp'.op = "continueStream"
ContextsOf(store, id) == {i \in 1..Len(store) : store[i].id = id}
\* the first half of C11: the id of a limit_notice is new, and one context
\* with that id is in the store when the event is yielded
C11_OneLiveContext(c) ==
    LET id == calls'[c].last.continuationId
    IN /\ id # NoId
       /\ id \notin issued
       /\ ContextsOf(continuations, id) = {}
       /\ Cardinality(ContextsOf(continuations', id)) = 1

\* C11 as stated: continueStream with the id of a limit_notice, called less
\* than the TTL after the truncation, starts a stream.
C11_Original ==
    [][ /\ \A c \in ASlots : NoticeStep(c) => C11_OneLiveContext(c)
        /\ (ResumeStep /\ lastOp'.id \in issued /\ now - lastOp'.id[1] < continuationTTLms)
              => lastOp'.result = "started" ]_vars

\* C11: the id attached to a limit_notice is new and exactly one context with
\* that id is in the store when the event is yielded; continueStream with
\* that id starts a stream with the continuation prompt whenever the context
\* is still in the store (not evicted by the size cap), is not older than the
\* TTL, and the consent gate passes.
C11_ContinuationLive ==
    [][ /\ \A c \in ASlots : NoticeStep(c) => C11_OneLiveContext(c)
        /\ (/\ ResumeStep
            /\ lastOp'.id \in issued
            /\ ContextsOf(continuations, lastOp'.id) # {}
            /\ \A i \in ContextsOf(continuations, lastOp'.id) :
                   now - continuations[i].ts <= continuationTTLms
            /\ ~consentBlocks)
              => /\ lastOp'.result = "started"
                 /\ \E c \in ASlots, i \in ContextsOf(continuations, lastOp'.id) :
                      /\ calls'[c].pc = "open"
                      /\ calls'[c].prompt = continuations[i].prompt
                             \o <<"[Prior partial output truncated]">>
                             \o continuations[i].outputSoFar \o <<"Continue">> ]_vars

\* a truncated stream that had yielded a delta was resumed
C11_Witness ==
    /\ lastOp.op = "continueStream"
    /\ lastOp.result = "started"
    /\ lastOp.id \in issued
    /\ \E c \in ASlots : /\ calls[c].pc = "open"
                         /\ calls[c].prompt = <<"P", "[Prior partial output truncated]", "x", "Continue">>

\* C12: continueStream with an id that is not in the store, or whose context
\* is older than the TTL, ends with the continuation error and starts no
\* stream; right after a context is stored, and right after
\* listContinuations, no context of the store is older than the TTL, and
\* listContinuations returns only such contexts.
C12_ExpiryAndUnknown ==
    [][ /\ (/\ ResumeStep
            /\ \A i \in ContextsOf(continuations, lastOp'.id) :
                   now - continuations[i].ts > continuationTTLms)
              => /\ lastOp'.result \in {"unknown", "expired"}
                 /\ \A c \in ASlots : calls'[c].pc # "open" \/ calls[c].pc = "open"
                 /\ ContextsOf(continuations', lastOp'.id) = {}
        /\ (nonce' # nonce \/ (lastOp'.op = "list" /\ now' = now))
              => \A i \in 1..Len(continuations') :
                     now - continuations'[i].ts <= continuationTTLms
        /\ (lastOp'.op = "list" /\ now' = now)
              => \A k \in 1..Len(lastOp'.listed) :
                     \E i \in ContextsOf(continuations', lastOp'.listed[k]) :
                         now - continuations'[i].ts <= continuationTTLms ]_vars

\* continueStream was refused because the context had expired
C12_Witness ==
    /\ lastOp.op = "continueStream"
    /\ lastOp.result = "expired"
    /\ lastOp.id \in issued
    /\ now - lastOp.id[1] > continuationTTLms
    /\ \A c \in ASlots : calls[c].pc = "idle"

\* C13: an Agent.invoke call that has ended has appended exactly one
\* provenance record, whose ok flag is true exactly if the call returned a
\* result, and that record is the newest of the ring; a call still in
\* progress has appended none.
C13_OneRecordPerInvoke ==
    \A c \in ASlots :
        calls[c].kind = "invoke"
          => /\ (calls[c].pc # "done" => calls[c].recs = <<>>)
             /\ (calls[c].pc = "done"
                   => /\ calls[c].result \in {"returned", "threw"}
                      /\ Len(calls[c].recs) = 1
                      /\ calls[c].recs[1] = (calls[c].result = "returned")
                      /\ count >= 1
                      /\ ring[(index + ringSize - 1) % ringSize].ok = calls[c].recs[1]
                      /\ ring[(index + ringSize - 1) % ringSize].model = calls[c].model)

\* an invocation whose afterInvoke hook threw left one record, of a failure
C13_Witness ==
    \E c \in ASlots : /\ calls[c].kind = "invoke" /\ calls[c].pc = "done"
                      /\ calls[c].error = "afterInvoke"
                      /\ calls[c].recs = <<FALSE>>
                      /\ count = 1

\* the contexts that are left of the store once the expired ones are removed
KeptNow == cleanupContinuations(continuations, now)

Slots == {i \in 0..(ringSize - 1) : ring[i] # NoEntry}
LastOf(log, k) == SubSeq(log, Len(log) - k + 1, Len(log))
Reverse(q) == [i \in 1..Len(q) |-> q[Len(q) + 1 - i]]
RecordStep == Len(provLog') = Len(provLog) + 1

\* C25: after n recordings the ring holds min(n, ringSize) records, never
\* more than ringSize, and they are the most recent ones: read from the
\* newest backwards they are the last min(n, ringSize) recorded entries.  A
\* recording into a full ring replaces the oldest record and leaves every
\* other slot as it was.
C25_RingKeepsNewest ==
    /\ [](LET k == Min(Len(provLog), ringSize)
          IN /\ count = k /\ count <= ringSize
             /\ Cardinality(Slots) = k
             /\ listProvenance(ring, index, count, ringSize) = Reverse(LastOf(provLog, k)))
    /\ [][ (RecordStep /\ count = ringSize)
             => /\ ring[index] = provLog[Len(provLog) - ringSize + 1]
                /\ ring'[index] = provLog'[Len(provLog')]
                /\ \A i \in 0..(ringSize - 1) : i # index => ring'[i] = ring[i] ]_vars

\* the ring has wrapped: the first entry recorded is gone, the later ones
\* are there
C25_Witness ==
    /\ Len(provLog) = ringSize + 1
    /\ count = ringSize
    /\ \A i \in 0..(ringSize - 1) : ring[i] # provLog[1]
    /\ \A k \in 2..Len(provLog) : \E i \in 0..(ringSize - 1) : ring[i] = provLog[k]

\* the fields of an entry that hold a string or an object, and the others
\* that are made from the call
TextFields == {"model", "promptHash", "error", "usage", "limit", "limitRationale",
               "continuationOf"}
ContentFields == TextFields \cup {"promptBytes", "ok", "truncated"}
SameButPrompt ==
    /\ pair.b = [pair.a EXCEPT !.prompt = pair.b.prompt]
    /\ pair.sha[pair.a.prompt] = pair.sha[pair.b.prompt]
    /\ byteLength(pair.a.prompt) = byteLength(pair.b.prompt)
SameButOutput == pair.b = [pair.a EXCEPT !.output = pair.b.output]

\* C26: no field of a provenance record is the prompt text or the output
\* text of its call; the records of two calls that differ only in the prompt
\* text, with equal hash and byte length, or only in the output text, are
\* equal in every field derived from the call.
C26_NoContentInRecord ==
    pair.pc = "done" =>
        /\ \A f \in TextFields :
               /\ pair.entryA[f] # pair.a.prompt /\ pair.entryA[f] # pair.a.output
               /\ pair.entryB[f] # pair.b.prompt /\ pair.entryB[f] # pair.b.output
        /\ ((SameButPrompt \/ SameButOutput)
              => \A f \in ContentFields : pair.entryA[f] = pair.entryB[f])

\* two successful invocations whose prompts differ and collide in hash and
\* byte length were recorded
C26_Witness ==
    /\ pair.pc = "done"
    /\ pair.a.via = "invoke" /\ pair.a.error = Null
    /\ pair.a.prompt = <<"a", "b">> /\ pair.b.prompt = <<"eacute">>
    /\ SameButPrompt
    /\ pair.entryA.ok /\ pair.entryA.promptBytes = 2

\* the step in which the call of slot c reaches the consent gate of the
\* registry: Agent.invoke after its beforeInvoke hook, Agent.stream at once
InvokeGateStep(c) ==
    /\ calls[c].kind = "invoke" /\ calls[c].pc = "before"
    /\ calls'[c].pc # "before" /\ calls'[c].error # "beforeInvoke"
StreamGateStep(c) ==
    /\ budget' < budget
    /\ calls[c].pc # "open"
    /\ calls'[c].kind = "stream" /\ calls'[c].pc \in {"open", "done"}
Refused(call) ==
    /\ call.pc = "done" /\ call.result = "threw" /\ call.error = "consent"
    /\ call.source = "none"

\* C27: a call of a registered model that reaches the registry while a
\* backend is configured, opt-in is required and consent is not granted
\* ends there with the consent error, before its adapter has run; in every
\* other case it passes.  No call reaches the gateway unless a backend is
\* configured; without one, whatever the consent state, no call fails for
\* consent, an invocation whose hooks do not throw returns the stub result
\* and a stream delivers the chunks of the stub.
C27_ConsentWhenConfigured ==
    /\ [][ \A c \in ASlots :
             /\ InvokeGateStep(c)
                  => IF isAzureConfigured /\ userOptIn /\ ~userConsent
                     THEN Refused(calls'[c])
                     ELSE calls'[c].pc = "model" /\ calls'[c].source \in {"stub", "gateway"}
             /\ StreamGateStep(c)
                  => IF isAzureConfigured /\ userOptIn /\ ~userConsent
                     THEN Refused(calls'[c])
                     ELSE calls'[c].pc = "open" ]_vars
    /\ [](\A c \in ASlots :
             /\ (calls[c].source = "gateway" => isAzureConfigured)
             /\ (~isAzureConfigured
                   => /\ calls[c].error \notin {"consent", "model", "stream"}
                      /\ calls[c].source \in {"none", "stub"}
                      /\ (calls[c].pc = "done" /\ calls[c].error = "none"
                            => /\ calls[c].result = "returned"
                               /\ calls[c].source = "stub"
                               /\ (calls[c].kind = "stream"
                                     => calls[c].deltas = StubChunks))))

\* with a backend configured and opt-in required, a call made after the
\* user withdrew consent was refused
C27_Witness ==
    /\ isAzureConfigured /\ userOptIn /\ ~userConsent
    /\ \E c \in ASlots : Refused(calls[c]) /\ calls[c].kind = "stream"
    /\ count >= 1
    /\ budget < MaxAgentCalls - 1

\* the state of the breaker, named as its events name it
BreakerState(cb) ==
    IF ~cb.open THEN "close" ELSE IF cb.halfOpenProbe THEN "half-open" ELSE "open"
Emitted == Len(cbEvents') - Len(cbEvents)

\* C28: a step that changes the state of the breaker puts exactly one event
\* in the history, of the type of the state entered, and a step puts an
\* event in the history only if it changes the state of the breaker (every
\* listener registered at that moment is handed the same payload in the
\* same call of emitCircuit).
C28_EventPerTransition ==
    [][ /\ (BreakerState(cbState') # BreakerState(cbState)
              => /\ Emitted = 1
                 /\ cbEvents'[1].event = BreakerState(cbState'))
        /\ (Emitted > 0 => BreakerState(cbState') # BreakerState(cbState)) ]_vars

\* C29: the breaker goes from open to closed only out of the half-open
\* state and only in the step in which a request that was admitted as a
\* probe, after the cooldown had elapsed, reports its success; no step
\* closes it while less than cooldownMs has passed since it opened.
C29_CloseOnlyByProbe ==
    [][ (cbState.open /\ ~cbState'.open)
           => /\ cbState.halfOpenProbe
              /\ \E p \in Reqs : EndStep(p) /\ req[p].probe /\ req'[p].reports = <<TRUE>>
              /\ (now - cbState.openedAt) > cooldownMs ]_vars

RECURSIVE Concat(_)
Concat(texts) == IF texts = <<>> THEN <<>> ELSE Head(texts) \o Concat(Tail(texts))

\* C30: at every point of a stream the concatenation of the deltas yielded
\* so far is the accumulated output text, and the output of a stream that
\* has ended, truncated or not, is the concatenation of its deltas (which is
\* what the agent saves as outputSoFar).
C30_DeltasAreOutput ==
    /\ Concat(DeltaTexts(sOut)) = fullText
    /\ (sResult.returned => sResult.output = Concat(DeltaTexts(sOut)))

\* ---------------------------------------------------------------------
\* C39: in every reachable state in which the circuit breaker is closed its
\* count of consecutive failures is strictly below the threshold, for every
\* threshold >= 1, and the half-open flag is set only while the breaker is
\* open.
C39_BreakerInvariant ==
    brk.pc = "on" =>
        /\ (~brk.cb.open => brk.cb.failures < brk.th)
        /\ (brk.cb.halfOpenProbe => brk.cb.open)

\* a breaker of threshold 1 that opened after time 0 and is closed again
C39_Witness ==
    /\ brk.pc = "on"
    /\ brk.th = 1
    /\ ~brk.cb.open
    /\ brk.cb.openedAt > 0

\* ---------------------------------------------------------------------
\* C38: listProvenance({limit}) returns exactly min(limit, count) records for
\* every limit >= 0, newest first: they are the last min(limit, count)
\* entries recorded, read backwards, also after the ring has wrapped around.
C38_ListExactly ==
    lastOp.op = "listProvenance" =>
        LET limit == lastOp.id[1]
            had == lastOp.id[2]
            k == Min(limit, had)
        IN /\ Len(lastOp.listed) = k
           /\ lastOp.listed = Reverse(LastOf(provLog, k))

\* ---------------------------------------------------------------------
\* the step in which call p ends on an error raised before fetchWithRetry
EndsBeforeGates(p) ==
    /\ req'[p].pc = "done"
    /\ req'[p].outcome \in {"config", "nodeploy", "auth"}
    /\ req'[p] # req[p]

\* C33: a call that fails before the gated attempt loop (backend not
\* configured, no deployment mapped, token exchange failed) is not retried
\* and leaves the shared state unchanged: no rate-limiter token is consumed,
\* the breaker's failure count and open flag are unchanged and no circuit
\* event is emitted.
C33_FailsBeforeGates ==
    [][ \A p \in Reqs : EndsBeforeGates(p) =>
          /\ rlTokens' = rlTokens /\ rlLastRefill' = rlLastRefill
          /\ cbState' = cbState
          /\ cbEvents' = cbEvents
          /\ req'[p].fetches = 0 /\ req'[p].attempt = 0
          /\ req'[p].tokenFetches <= 1
          /\ req'[p].reports = <<>>
          /\ "breaker" \notin {req'[p].steps[i] : i \in 1..Len(req'[p].steps)} ]_vars

\* a token exchange has just failed while the bucket is partly used and the
\* breaker counts a failure
C33_Witness ==
    \E p \in Reqs :
        /\ req[p].pc = "done" /\ req[p].outcome = "auth"
        /\ req[p].tokenFetches = 1
        /\ rlTokens = rlCapacity - 1
        /\ cbState.failures = 1

\* ---------------------------------------------------------------------
\* the step in which the fetch() of call p is answered, and the responses
\* that the loop does not retry
AnswerStep(p) == req[p].pc = "fetching" /\ req'[p] # req[p]
FinalStatus(s) == s # 0 /\ s \notin RETRIABLE_STATUS

\* C32: a response whose status is not in the retriable set {408, 429, 500,
\* 502, 503, 504}, a success or a non-retriable error, ends the request at
\* once: it is returned to the caller after that attempt, with no sleep and no
\* further attempt, whatever the number of retries remaining.
C32_NonRetriableEnds ==
    /\ [][ \A p \in Reqs : (AnswerStep(p) /\ FinalStatus(req'[p].lastResp)) =>
             /\ req'[p].pc = "done"
             /\ req'[p].outcome = (IF req'[p].lastResp \in 200..299 THEN "ok" ELSE "http")
             /\ req'[p].fetches = req[p].fetches
             /\ req'[p].attempt = req[p].attempt
             /\ req'[p].wakeAt = 0 ]_vars
    /\ [](\A p \in Reqs : FinalStatus(req[p].lastResp) => req[p].pc = "done")

\* a call ended by a 404 on its first attempt, a retry left
C32_Witness ==
    \E p \in Reqs :
        /\ req[p].pc = "done" /\ req[p].outcome = "http"
        /\ req[p].lastResp = 404
        /\ req[p].attempt = 0 /\ req[p].attempt < retries
        /\ req[p].fetches = 1

\* ---------------------------------------------------------------------
\* the step in which the backoff sleep of call p ends and its next attempt starts
RetryStep(p) == req[p].pc = "sleeping" /\ req'[p].pc = "fetching"

\* C36: a logical request consumes exactly one rate-limiter token, taken once
\* before its first attempt; its retry attempts consume no further tokens.
\* The logical requests admitted in one refill window never exceed the
\* capacity (the network attempts of a window can).
C36_OneTokenPerRequest ==
    /\ [][ \A p \in Reqs :
             /\ AdmitStep(p) =>
                  /\ req'[p].attempt = 0 /\ req'[p].fetches = 1
                  /\ rlTokens' = (IF (now - rlLastRefill) >= rlRefillMs
                                  THEN rlCapacity ELSE rlTokens) - 1
             /\ (RetryStep(p) \/ AnswerStep(p)) =>
                  /\ rlTokens' = rlTokens /\ rlLastRefill' = rlLastRefill
                  /\ rlWin' = rlWin ]_vars
    /\ [][ rlTokens' # rlTokens => \E p \in Reqs : AdmitStep(p) ]_vars
    /\ [](rlWin.adm <= rlCapacity /\ rlTokens = rlCapacity - rlWin.adm)

\* the only requests started were admitted in the current window, as many as
\* the capacity, and they have already made more network attempts in it than
\* the capacity
C36_Witness ==
    /\ budget = MaxReq - rlCapacity
    /\ rlWin.adm = rlCapacity
    /\ rlTokens = 0
    /\ now - rlLastRefill < rlRefillMs
    /\ \A p \in 1..rlCapacity : req[p].pc = "fetching" /\ req[p].fetches = 2

\* ---------------------------------------------------------------------
\* call p has passed the gates and has not ended
InLoop(p) == req[p].pc \in {"fetching", "sleeping"}
Ended(p) == req[p].pc = "done" /\ req[p].outcome \in {"ok", "http", "exhausted"}
\* the sleep of call p ends after the last instant of the clock of the model
AsleepPastClock(p) == req[p].pc = "sleeping" /\ req[p].wakeAt > MaxTime

\* C37: every request that passes the gates terminates, with a returned
\* response or a thrown error, after at most retries+1 attempts and at most
\* retries backoff sleeps, for any mix of successes, retriable statuses,
\* non-retriable statuses and network exceptions, provided each network call
\* and each sleep completes.  (A sleep of at most maxDelay that reaches past
\* the last instant of the clock is the one thing left pending.)
C37_Terminates ==
    /\ [](\A p \in Reqs :
            /\ req[p].fetches <= retries + 1
            /\ req[p].attempt <= retries
            /\ (InLoop(p) \/ Ended(p) => req[p].fetches = req[p].attempt + 1)
            /\ (req[p].pc = "sleeping" => /\ req[p].attempt < retries
                                          /\ req[p].wakeAt <= now + maxDelay))
    /\ \A p \in Reqs : InLoop(p) ~> (Ended(p) \/ AsleepPastClock(p))

\* a call has ended after retries+1 attempts, having slept retries times
C37_Witness ==
    \E p \in Reqs :
        /\ Ended(p)
        /\ req[p].fetches = retries + 1
        /\ req[p].attempt = retries
        /\ req[p].outcome = "ok"
        /\ retries > 0

\* ---------------------------------------------------------------------
\* the limit the policy gives to the prompt of the stream, and the limit the
\* stream is to enforce
HeuristicLimit == evaluateStreamingLimit(sPrompt).limit
LimitDue ==
    IF legacyCap > 0 /\ legacyCap < HeuristicLimit THEN legacyCap ELSE HeuristicLimit

\* C34: the enforced limit of a stream is fixed at stream start: it is the
\* legacy cap when that cap is configured, positive and smaller than the
\* heuristic limit, and the heuristic limit otherwise; limit_info, every delta
\* event and limit_notice of the stream carry this same value.
C34_LimitFixedAtStart ==
    /\ [](sPc # "off" =>
            /\ enforcedLimit = LimitDue
            /\ \A i \in 1..Len(sOut) : sOut[i].limit = LimitDue
            /\ (sPc # "new" => sOut # <<>> /\ sOut[1].event = "limit_info"))
    /\ [][limitInfo' = limitInfo /\ legacyCap' = legacyCap /\ sPrompt' = sPrompt]_vars

\* a stream under a legacy cap of 3 went through limit_info, a delta and
\* limit_notice
C34_Witness ==
    /\ sPc = "ended"
    /\ legacyCap = 3 /\ HeuristicLimit > 3
    /\ Len(sOut) >= 3
    /\ sOut[1].event = "limit_info"
    /\ \E i \in 1..Len(sOut) : sOut[i].event = "delta"
    /\ sOut[Len(sOut)].event = "limit_notice"

\* ---------------------------------------------------------------------
\* continueStream is called with an id whose context is in the store and is
\* not older than the TTL
ResumesLive ==
    /\ ResumeStep
    /\ ContextsOf(continuations, lastOp'.id) # {}
    /\ \A i \in ContextsOf(continuations, lastOp'.id) :
           now - continuations[i].ts <= continuationTTLms

\* C35: resuming a live continuation is read-only on the store: continueStream
\* with a known, unexpired id neither removes nor modifies that context nor
\* any other, so the same id can be resumed again until it expires or is
\* evicted.
C35_ResumeReadOnly ==
    [][ ResumesLive =>
          /\ continuations' = continuations
          /\ ContextsOf(continuations', lastOp'.id) # {}
          /\ nonce' = nonce /\ issued' = issued ]_vars

\* a context made at an earlier instant has just been resumed and is still in
\* the store, as it was
C35_Witness ==
    /\ lastOp.op = "continueStream"
    /\ lastOp.result = "started"
    /\ \E i \in 1..Len(continuations) :
          /\ continuations[i].id = lastOp.id
          /\ continuations[i].ts < now
          /\ continuations[i].outputSoFar # <<>>
          /\ \E c \in ASlots : calls[c].pc = "open"
                               /\ calls[c].prompt = continuationPrompt(continuations[i])
                               /\ calls[c].inner = "start"

\* ---------------------------------------------------------------------
\* the stream of slot c was started by Agent.stream and has ended: its
\* iterator was exhausted, threw, or was closed by the consumer
StreamOver(c) ==
    /\ calls[c].kind = "stream" /\ calls[c].pc = "done"
    /\ \/ calls[c].result \in {"returned", "abandoned"}
       \/ calls[c].result = "threw" /\ calls[c].error = "stream"

\* C31: every stream request started through Agent.stream results in exactly
\* one provenance record, however the stream ends: natural completion,
\* truncation by the limit, an error, or the consumer abandoning the
\* iteration early (for example stopping at limit_notice).
C31_OneRecordPerStream ==
    \A c \in ASlots :
        /\ (calls[c].kind = "stream" /\ calls[c].pc = "open") => calls[c].recs = <<>>
        /\ StreamOver(c) => Len(calls[c].recs) = 1

====
